---- MODULE Spec2Model ----
(***************************************************************************)
(* Career Hub (src/app.py): the engagement bookkeeping of the Flask app.   *)
(* Every route handler is one atomic action over the module-level dicts   *)
(* and lists of app.py.  Strings that the code sorts, joins, strips or    *)
(* scans (user ids, message and post text) are sequences of character     *)
(* codes; post, message and notification ids (uuid4 prefixes and the      *)
(* seeded "1".."5") are opaque, so they are numbers.                      *)
(***************************************************************************)
EXTENDS Integers, Sequences, FiniteSets, TLC

VARIABLES
    now,               \* datetime.now(): [day, tick]
    experience_posts,  \* app.py:1175, list of posts, newest first
    user_likes,        \* app.py:30, {user_id: {post_id: iso timestamp}}
    user_favorites,    \* app.py:150, {user_id: [post_id]}
    next_post,         \* number of uuid4 post ids drawn so far
    dream_companies,   \* app.py:162, list of companies with their vote totals
    company_votes,     \* app.py:33, {company_id: {user_id: iso timestamp}}
    user_achievements, \* app.py:39, {user_id: badges, points and counters}
    private_messages,  \* app.py:156, {conversation_id: [message]}
    user_notifications,\* app.py:153, {user_id: [notification]}, newest first
    user_settings,     \* app.py:159, {user_id: {"receive_messages": bool}}
    next_message,      \* number of uuid4 message ids drawn so far
    next_notification, \* number of uuid4 notification ids drawn so far
    users_db,          \* app.py:27, the registered users, by user id: {verified}
    offer_showcase,    \* app.py:53, list of offers, newest first
    custom_tags_history, \* app.py:147, {user_id: [tag]}, newest first
    next_comment,      \* number of uuid4 comment and reply ids drawn so far
    next_offer,        \* number of uuid4 offer ids drawn so far
    threads,           \* the like requests in progress: [pc, runs] per server thread
    resp,              \* the JSON body the last handler returned
    hist_likes,        \* history: {<<user, post, day>>} likes made and not undone
    hist_purged,       \* history: the last deleted post and whose favorites held it
    hist_req,          \* history: the last vote, award, message or settings request
    hist_votes,        \* history: {<<user, company, day>>} company votes accepted
    hist_calls         \* history: vote calls made and accepted, per user

postVars == <<experience_posts, user_likes, user_favorites, next_post>>
voteVars == <<dream_companies, company_votes, user_achievements>>
msgVars == <<private_messages, user_notifications, user_settings, next_message,
             next_notification>>
extraVars ==
    <<users_db, offer_showcase, custom_tags_history, next_comment, next_offer, threads>>
histVars == <<hist_likes, hist_purged, hist_req, hist_votes, hist_calls>>
vars == <<now, postVars, voteVars, msgVars, extraVars, resp, histVars>>

(***************************************************************************)
(* Bounds of the model.                                                    *)
(***************************************************************************)
MaxDay == 1

(***************************************************************************)
(* Identities.  A registered user's id is str(uuid4())[:8] (hex digits);   *)
(* two characters stand for the eight.  "system" and "anonymous" are the   *)
(* author ids of seeded posts and of posts created without a login.        *)
(***************************************************************************)
U1 == <<97, 49>>
U2 == <<98, 50>>
Users == {U1, U2}
NoUser == <<>>
SystemId == <<115, 121, 115, 116, 101, 109>>
AnonymousId == <<97, 110, 111, 110, 121, 109, 111, 117, 115>>
Callers == Users \cup {NoUser}

(***************************************************************************)
(* Python containers.                                                      *)
(***************************************************************************)
Range(s) == {s[i] : i \in 1..Len(s)}
Max(a, b) == IF a >= b THEN a ELSE b
EmptyDict == [k \in {} |-> 0]
DictPut(d, k, v) == [x \in (DOMAIN d) \cup {k} |-> IF x = k THEN v ELSE d[x]]
DictDel(d, k) == [x \in (DOMAIN d) \ {k} |-> d[x]]
DictGet(d, k, default) == IF k \in DOMAIN d THEN d[k] ELSE default
\* list.index of the first element equal to x, 0 when absent
IndexOf(s, x) ==
    IF x \in Range(s) THEN CHOOSE i \in 1..Len(s) : s[i] = x /\ \A j \in 1..(i - 1) : s[j] /= x
    ELSE 0
\* list.pop(i) with a 1-based index
ListPop(s, i) == [j \in 1..(Len(s) - 1) |-> IF j < i THEN s[j] ELSE s[j + 1]]
\* list.remove(x): drops the first occurrence
ListRemove(s, x) == ListPop(s, IndexOf(s, x))
\* list.insert(0, x)
ListInsertFront(s, x) == <<x>> \o s
\* number of keys of d whose value satisfies Test
CountWhere(d, Test(_)) == Cardinality({k \in DOMAIN d : Test(d[k])})

(***************************************************************************)
(* Clock.  datetime.now() is a day number and a tick within the day; tick  *)
(* 0 is midnight.  isoformat() writes the fields out, fromisoformat()      *)
(* reads them back.                                                        *)
(***************************************************************************)
Ticks == {0, 1}
isoformat(dt) == <<dt.day, dt.tick>>
fromisoformat(s) == [day |-> s[1], tick |-> s[2]]
\* datetime >= datetime
dt_ge(a, b) == a.day > b.day \/ (a.day = b.day /\ a.tick >= b.tick)
\* now.replace(hour=0, minute=0, second=0, microsecond=0)
today_start(t) == [day |-> t.day, tick |-> 0]

(***************************************************************************)
(* Content moderation, app.py:176 and 1521-1526.                           *)
(***************************************************************************)
PROHIBITED_WORDS ==
    << <<24191, 21578>>, <<24494, 20449>>, <<21152, 25105>>, <<20080, 21334>>,
       <<20195, 20889>>, <<20195, 32771>>, <<36186, 38065>>,
       <<20860, 32844, 21047, 21333>>, <<25307, 20195, 29702>> >>
\* the word looked for at the start of the text only
StartsWith(text, word) == Len(word) <= Len(text) /\ SubSeq(text, 1, Len(word)) = word
\* Python's `word in text`
Contains(text, word) ==
    \E i \in 0..(Len(text) - Len(word)) : SubSeq(text, i + 1, i + Len(word)) = word
check_content_moderation(text) ==
    LET hits == {i \in 1..Len(PROHIBITED_WORDS) : Contains(text, PROHIBITED_WORDS[i])}
    IN  IF hits = {} THEN [ok |-> TRUE, word |-> <<>>]
        ELSE [ok |-> FALSE,
              word |-> PROHIBITED_WORDS[CHOOSE i \in hits : \A j \in hits : i <= j]]

(***************************************************************************)
(* Seeded posts, app.py:1175-1328.  Fields no modelled handler reads       *)
(* (title, content, tags, ...) are left out.                               *)
(***************************************************************************)
\* Seeded comments: their ids ("c1", "c2", "c1a", ...) are numbered in the
\* order of the source; the text is left out, no handler reads it.  None
\* has a reply.
SeedComment(id, author_id) == [id |-> id, author_id |-> author_id, replies |-> <<>>]
\* the comments of the five seeded posts, post by post
SeedComments ==
    <<
       << SeedComment(1, <<117, 115, 101, 114, 49>>),
          SeedComment(2, <<117, 115, 101, 114, 50>>),
          SeedComment(3, <<117, 115, 101, 114, 54>>),
          SeedComment(4, <<117, 115, 101, 114, 55>>),
          SeedComment(5, <<117, 115, 101, 114, 56>>),
          SeedComment(6, <<117, 115, 101, 114, 57>>),
          SeedComment(7, <<117, 115, 101, 114, 50, 52>>),
          SeedComment(8, <<117, 115, 101, 114, 50, 53>>),
          SeedComment(9, <<117, 115, 101, 114, 50, 54>>),
          SeedComment(10, <<117, 115, 101, 114, 50, 55>>),
          SeedComment(11, <<117, 115, 101, 114, 50, 56>>),
          SeedComment(12, <<117, 115, 101, 114, 50, 57>>) >>,
       << SeedComment(13, <<117, 115, 101, 114, 51>>),
          SeedComment(14, <<117, 115, 101, 114, 49, 48>>),
          SeedComment(15, <<117, 115, 101, 114, 49, 49>>),
          SeedComment(16, <<117, 115, 101, 114, 49, 50>>),
          SeedComment(17, <<117, 115, 101, 114, 49, 51>>),
          SeedComment(18, <<117, 115, 101, 114, 49, 52>>),
          SeedComment(19, <<117, 115, 101, 114, 51, 48>>),
          SeedComment(20, <<117, 115, 101, 114, 51, 49>>),
          SeedComment(21, <<117, 115, 101, 114, 51, 50>>),
          SeedComment(22, <<117, 115, 101, 114, 51, 51>>),
          SeedComment(23, <<117, 115, 101, 114, 51, 52>>),
          SeedComment(24, <<117, 115, 101, 114, 51, 53>>),
          SeedComment(25, <<117, 115, 101, 114, 51, 54>>) >>,
       << SeedComment(26, <<117, 115, 101, 114, 49, 53>>),
          SeedComment(27, <<117, 115, 101, 114, 49, 54>>),
          SeedComment(28, <<117, 115, 101, 114, 49, 55>>),
          SeedComment(29, <<117, 115, 101, 114, 49, 56>>),
          SeedComment(30, <<117, 115, 101, 114, 51, 55>>),
          SeedComment(31, <<117, 115, 101, 114, 51, 56>>),
          SeedComment(32, <<117, 115, 101, 114, 51, 57>>),
          SeedComment(33, <<117, 115, 101, 114, 52, 48>>),
          SeedComment(34, <<117, 115, 101, 114, 52, 49>>),
          SeedComment(35, <<117, 115, 101, 114, 52, 50>>) >>,
       << SeedComment(36, <<117, 115, 101, 114, 52>>),
          SeedComment(37, <<117, 115, 101, 114, 53>>),
          SeedComment(38, <<117, 115, 101, 114, 49, 57>>),
          SeedComment(39, <<117, 115, 101, 114, 50, 48>>) >>,
       << SeedComment(40, <<117, 115, 101, 114, 50, 49>>),
          SeedComment(41, <<117, 115, 101, 114, 50, 50>>),
          SeedComment(42, <<117, 115, 101, 114, 50, 51>>) >>
    >>
SeedCommentsOf(id) == SeedComments[id]
NumSeedComments == 42
SeedPost(id, likes, votes, dream) ==
    [id |-> id, author_id |-> SystemId, likes |-> likes, liked_by |-> <<>>,
     votes |-> votes, voted_by |-> <<>>, is_dream_job |-> dream,
     comments |-> SeedCommentsOf(id)]
SeedPosts ==
    << SeedPost(1, 42, 0, FALSE), SeedPost(2, 67, 25, TRUE), SeedPost(3, 35, 0, FALSE),
       SeedPost(4, 89, 0, FALSE), SeedPost(5, 28, 45, TRUE) >>
SeedIds == {SeedPosts[i].id : i \in 1..Len(SeedPosts)}
\* the id the n-th uuid4 draw gives a post
NewPostId(n) == Len(SeedPosts) + n
\* index of the first post with this id, 0 when there is none
FindPost(post_id) ==
    IF \E i \in 1..Len(experience_posts) : experience_posts[i].id = post_id
    THEN CHOOSE i \in 1..Len(experience_posts) :
            /\ experience_posts[i].id = post_id
            /\ \A j \in 1..(i - 1) : experience_posts[j].id /= post_id
    ELSE 0

(***************************************************************************)
(* Like rate limit, app.py:1529-1550.  The check stores an empty like      *)
(* record for a user who has none, so it returns the dict it leaves.       *)
(***************************************************************************)
DailyLikeLimit == 50
AlreadyLikedMsg == "Today's like, cannot be repeated"
DailyLimitMsg == "Daily like limit reached (50/day)"
\* the limit test taken one like late
over_daily_limit_late(today_likes) == today_likes > DailyLikeLimit
\* app.py:1547
over_daily_limit(today_likes) == today_likes >= DailyLikeLimit
can_like_post(user_id, post_id) ==
    LET likes1 == IF user_id \in DOMAIN user_likes THEN user_likes
                  ELSE DictPut(user_likes, user_id, EmptyDict)
        user_post_likes == likes1[user_id]
        start == today_start(now)
        IsToday(ts) == dt_ge(fromisoformat(ts), start)
        today_likes == CountWhere(user_post_likes, IsToday)
    IN  IF post_id \in DOMAIN user_post_likes /\ IsToday(user_post_likes[post_id])
        THEN [ok |-> FALSE, msg |-> AlreadyLikedMsg, user_likes |-> likes1]
        ELSE IF over_daily_limit(today_likes)
        THEN [ok |-> FALSE, msg |-> DailyLimitMsg, user_likes |-> likes1]
        ELSE [ok |-> TRUE, msg |-> "", user_likes |-> likes1]

(***************************************************************************)
(* POST /api/posts, app.py:2692-2744.                                      *)
(***************************************************************************)
\* app.py:1569-1575.  re.match with a pattern ending in $ also accepts one
\* line feed after the last character.
TagChars == (48..57) \cup (65..90) \cup (97..122) \cup (19968..40869)
validate_custom_tag(tag) ==
    /\ Len(tag) >= 2
    /\ Len(tag) <= 10
    /\ LET body == IF tag[Len(tag)] = 10 THEN SubSeq(tag, 1, Len(tag) - 1) ELSE tag
       IN  body /= <<>> /\ \A i \in 1..Len(body) : body[i] \in TagChars
TagHistoryCap == 10
MaxCustomTags == 2
\* s[-n:], the last n
Suffix(s, n) == SubSeq(s, IF Len(s) <= n THEN 1 ELSE Len(s) - n + 1, Len(s))
\* s[:n]
Prefix(s, n) == SubSeq(s, 1, IF Len(s) <= n THEN Len(s) ELSE n)
\* app.py:2717-2719
RECURSIVE remember_tags(_, _)
remember_tags(history, tags) ==
    IF tags = <<>> THEN history
    ELSE remember_tags(IF Head(tags) \in Range(history) THEN history
                       ELSE ListInsertFront(history, Head(tags)),
                       Tail(tags))
\* the title alone
post_title(title, content) == title
\* app.py:2700, the text handed to moderation
post_text(title, content) == title \o <<32>> \o content
api_create_post(user, title, content, dream, custom_tags) ==
    LET m == check_content_moderation(post_text(title, content))
    IN  IF ~m.ok
        THEN /\ resp' = [success |-> FALSE, message |-> "Post rejected", word |-> m.word]
             /\ UNCHANGED <<experience_posts, next_post, custom_tags_history>>
        ELSE LET validated_custom_tags ==
                     SelectSeq(Prefix(custom_tags, MaxCustomTags), validate_custom_tag)
                 history1 == IF user \in DOMAIN custom_tags_history THEN custom_tags_history
                             ELSE DictPut(custom_tags_history, user, <<>>)
                 post == [id |-> NewPostId(next_post + 1),
                          author_id |-> IF user /= NoUser THEN user ELSE AnonymousId,
                          likes |-> 0, liked_by |-> <<>>, votes |-> 0, voted_by |-> <<>>,
                          is_dream_job |-> dream, comments |-> <<>>]
             IN  /\ experience_posts' = ListInsertFront(experience_posts, post)
                 /\ next_post' = next_post + 1
                 /\ custom_tags_history' =
                        IF user /= NoUser /\ validated_custom_tags /= <<>>
                        THEN [history1 EXCEPT ![user] =
                                Prefix(remember_tags(@, validated_custom_tags), TagHistoryCap)]
                        ELSE custom_tags_history
                 /\ resp' = [success |-> TRUE, post |-> post.id]

(***************************************************************************)
(* POST /api/posts/<post_id>/like, app.py:2747-2784.                       *)
(***************************************************************************)
\* the toggle test never finding the user
never_liked_by(post, user) == FALSE
\* app.py:2761, the toggle test
is_liked_by(post, user) == user \in Range(post.liked_by)
\* the user removed and the count left as it is
unlike_update_keep_count(post, user) ==
    [post EXCEPT !.liked_by = ListRemove(post.liked_by, user)]
\* app.py:2762-2763
unlike_update(post, user) ==
    [post EXCEPT !.liked_by = ListRemove(post.liked_by, user),
                 !.likes = Max(0, post.likes - 1)]
\* the like timestamp left in place
keep_like(likes, user, post_id) == likes
\* app.py:2765-2766
forget_like(likes, user, post_id) ==
    IF user \in DOMAIN likes /\ post_id \in DOMAIN likes[user]
    THEN [likes EXCEPT ![user] = DictDel(@, post_id)]
    ELSE likes
\* the count raised without the user being recorded
like_update_count_only(post, user) == [post EXCEPT !.likes = post.likes + 1]
\* app.py:2774-2775
like_update(post, user) ==
    [post EXCEPT !.likes = post.likes + 1, !.liked_by = Append(post.liked_by, user)]
\* no timestamp written
record_nothing(likes, user, post_id) == likes
\* app.py:2778-2780
record_like(likes, user, post_id) ==
    LET likes1 == IF user \in DOMAIN likes THEN likes ELSE DictPut(likes, user, EmptyDict)
    IN  [likes1 EXCEPT ![user] = DictPut(@, post_id, isoformat(now))]
api_like_post(user, post_id) ==
    IF user = NoUser
    THEN /\ resp' = [success |-> FALSE, message |-> "Please login to like posts"]
         /\ UNCHANGED <<experience_posts, user_likes>>
    ELSE LET i == FindPost(post_id)
         IN  IF i = 0
             THEN /\ resp' = [success |-> FALSE, message |-> "Post not found"]
                  /\ UNCHANGED <<experience_posts, user_likes>>
             ELSE LET post == experience_posts[i]
                  IN  IF is_liked_by(post, user)
                      THEN LET post1 == unlike_update(post, user)
                           IN  /\ experience_posts' = [experience_posts EXCEPT ![i] = post1]
                               /\ user_likes' = forget_like(user_likes, user, post_id)
                               /\ resp' = [success |-> TRUE, likes |-> post1.likes,
                                           liked |-> FALSE]
                      ELSE LET can == can_like_post(user, post_id)
                           IN  IF ~can.ok
                               THEN /\ user_likes' = can.user_likes
                                    /\ UNCHANGED experience_posts
                                    /\ resp' = [success |-> FALSE, message |-> can.msg,
                                                already_liked |-> TRUE]
                               ELSE LET post1 == like_update(post, user)
                                    IN  /\ experience_posts' =
                                             [experience_posts EXCEPT ![i] = post1]
                                        /\ user_likes' =
                                             record_like(can.user_likes, user, post_id)
                                        /\ resp' = [success |-> TRUE, likes |-> post1.likes,
                                                    liked |-> TRUE]

(***************************************************************************)
(* api_like_post statement by statement, app.py:2747-2784, as a thread of  *)
(* the threaded server runs it for user and post_id.  A thread holds its   *)
(* position in pc; the post is found anew at each statement, which is the  *)
(* object the thread holds as long as no post is inserted or removed.      *)
(***************************************************************************)
Threads == {1, 2}
\* the thread moves to a statement
Goto(t, pc) == threads' = [threads EXCEPT ![t].pc = pc]
\* the handler returns
Return(t, body) ==
    /\ threads' = [threads EXCEPT ![t] = [pc |-> "idle", runs |-> @.runs + 1]]
    /\ resp' = body
\* app.py:2749-2758
like_begin(t) ==
    /\ threads[t].pc = "idle"
    /\ Goto(t, "test")
    /\ UNCHANGED <<experience_posts, user_likes, resp>>
\* app.py:2761
like_test(t, user, post_id) ==
    /\ threads[t].pc = "test"
    /\ IF is_liked_by(experience_posts[FindPost(post_id)], user)
       THEN Goto(t, "remove")
       ELSE Goto(t, "check")
    /\ UNCHANGED <<experience_posts, user_likes, resp>>
\* app.py:2762; list.remove raises ValueError when the user is not there
like_remove(t, user, post_id) ==
    /\ threads[t].pc = "remove"
    /\ LET i == FindPost(post_id)
       IN  IF user \in Range(experience_posts[i].liked_by)
           THEN /\ experience_posts' =
                     [experience_posts EXCEPT ![i].liked_by = ListRemove(@, user)]
                /\ Goto(t, "decrement")
                /\ UNCHANGED resp
           ELSE /\ Return(t, [success |-> FALSE, error |-> "ValueError"])
                /\ UNCHANGED experience_posts
    /\ UNCHANGED user_likes
\* app.py:2763
like_decrement(t, user, post_id) ==
    /\ threads[t].pc = "decrement"
    /\ experience_posts' =
          [experience_posts EXCEPT ![FindPost(post_id)].likes = Max(0, @ - 1)]
    /\ Goto(t, "forget")
    /\ UNCHANGED <<user_likes, resp>>
\* app.py:2765-2767
like_forget(t, user, post_id) ==
    /\ threads[t].pc = "forget"
    /\ user_likes' = forget_like(user_likes, user, post_id)
    /\ Return(t, [success |-> TRUE,
                  likes |-> experience_posts[FindPost(post_id)].likes, liked |-> FALSE])
    /\ UNCHANGED experience_posts
\* app.py:2770-2772
like_check(t, user, post_id) ==
    /\ threads[t].pc = "check"
    /\ LET can == can_like_post(user, post_id)
       IN  /\ user_likes' = can.user_likes
           /\ IF can.ok
              THEN Goto(t, "increment") /\ UNCHANGED resp
              ELSE Return(t, [success |-> FALSE, message |-> can.msg,
                              already_liked |-> TRUE])
    /\ UNCHANGED experience_posts
\* app.py:2774
like_increment(t, user, post_id) ==
    /\ threads[t].pc = "increment"
    /\ experience_posts' = [experience_posts EXCEPT ![FindPost(post_id)].likes = @ + 1]
    /\ Goto(t, "append")
    /\ UNCHANGED <<user_likes, resp>>
\* app.py:2775
like_append(t, user, post_id) ==
    /\ threads[t].pc = "append"
    /\ experience_posts' =
          [experience_posts EXCEPT ![FindPost(post_id)].liked_by = Append(@, user)]
    /\ Goto(t, "record")
    /\ UNCHANGED <<user_likes, resp>>
\* app.py:2778-2782
like_record(t, user, post_id) ==
    /\ threads[t].pc = "record"
    /\ user_likes' = record_like(user_likes, user, post_id)
    /\ Return(t, [success |-> TRUE,
                  likes |-> experience_posts[FindPost(post_id)].likes, liked |-> TRUE])
    /\ UNCHANGED experience_posts

(***************************************************************************)
(* POST /api/posts/<post_id>/vote, app.py:2787-2811.                       *)
(***************************************************************************)
\* the test never finding the voter
never_voted_by(post, user) == FALSE
\* app.py:2801
is_voted_by(post, user) == user \in Range(post.voted_by)
api_vote_post(user, post_id) ==
    IF user = NoUser
    THEN /\ resp' = [success |-> FALSE, message |-> "Please login to vote"]
         /\ UNCHANGED experience_posts
    ELSE LET i == FindPost(post_id)
         IN  IF i = 0
             THEN /\ resp' = [success |-> FALSE, message |-> "Post not found"]
                  /\ UNCHANGED experience_posts
             ELSE LET post == experience_posts[i]
                  IN  IF ~post.is_dream_job
                      THEN /\ resp' = [success |-> FALSE,
                                       message |-> "This post is not in Dream Job category"]
                           /\ UNCHANGED experience_posts
                      ELSE IF is_voted_by(post, user)
                      THEN /\ resp' = [success |-> FALSE,
                                       message |-> "You already voted for this post",
                                       already_voted |-> TRUE]
                           /\ UNCHANGED experience_posts
                      ELSE /\ experience_posts' =
                                [experience_posts EXCEPT ![i] =
                                    [post EXCEPT !.votes = post.votes + 1,
                                                 !.voted_by = Append(post.voted_by, user)]]
                           /\ resp' = [success |-> TRUE, votes |-> post.votes + 1]

(***************************************************************************)
(* POST /api/posts/<post_id>/favorite, app.py:3116-3131 (@login_required). *)
(***************************************************************************)
api_toggle_favorite(user, post_id) ==
    IF user = NoUser
    THEN /\ resp' = [success |-> FALSE, message |-> "Please login first"]
         /\ UNCHANGED user_favorites
    ELSE LET favs1 == IF user \in DOMAIN user_favorites THEN user_favorites
                      ELSE DictPut(user_favorites, user, <<>>)
         IN  IF post_id \in Range(favs1[user])
             THEN /\ user_favorites' = [favs1 EXCEPT ![user] = ListRemove(@, post_id)]
                  /\ resp' = [success |-> TRUE, favorited |-> FALSE]
             ELSE /\ user_favorites' = [favs1 EXCEPT ![user] = Append(@, post_id)]
                  /\ resp' = [success |-> TRUE, favorited |-> TRUE]

(***************************************************************************)
(* DELETE /api/posts/<post_id>, app.py:3150-3177 (@login_required).        *)
(***************************************************************************)
\* the favorites left as they are
purge_none(favorites, post_id) == favorites
\* app.py:3171-3173
purge_favorites(favorites, post_id) ==
    [u \in DOMAIN favorites |->
        IF post_id \in Range(favorites[u]) THEN ListRemove(favorites[u], post_id)
        ELSE favorites[u]]
\* the ownership test letting anyone through
anyone_owns(post, user) == TRUE
\* app.py:3164
is_owner(post, user) == post.author_id = user
api_delete_post(user, post_id) ==
    IF user = NoUser
    THEN /\ resp' = [success |-> FALSE, message |-> "Please login first"]
         /\ UNCHANGED <<experience_posts, user_favorites>>
    ELSE LET i == FindPost(post_id)
         IN  IF i = 0
             THEN /\ resp' = [success |-> FALSE, message |-> "Post not found"]
                  /\ UNCHANGED <<experience_posts, user_favorites>>
             ELSE IF ~is_owner(experience_posts[i], user)
             THEN /\ resp' = [success |-> FALSE,
                              message |-> "You can only delete your own posts"]
                  /\ UNCHANGED <<experience_posts, user_favorites>>
             ELSE /\ experience_posts' = ListPop(experience_posts, i)
                  /\ user_favorites' = purge_favorites(user_favorites, post_id)
                  /\ resp' = [success |-> TRUE, message |-> "Post deleted successfully"]

(***************************************************************************)
(* Dream companies and achievements, app.py:39-50, 137-144 and 162-173.    *)
(* A company is its id and its vote total; the display fields are left     *)
(* out.  The demo users' achievement records are seeded.                   *)
(***************************************************************************)
\* the "name" of each company
CompanyName(id) ==
    CASE id = "google" -> <<71, 111, 111, 103, 108, 101>>
      [] id = "goldman" -> <<71, 111, 108, 100, 109, 97, 110, 32, 83, 97, 99, 104, 115>>
      [] id = "mckinsey" -> <<77, 99, 75, 105, 110, 115, 101, 121, 32, 38, 32, 67, 111, 109, 112, 97, 110, 121>>
      [] id = "meta" -> <<77, 101, 116, 97>>
      [] id = "jpmorgan" -> <<74, 46, 80, 46, 32, 77, 111, 114, 103, 97, 110>>
      [] id = "hsbc" -> <<72, 83, 66, 67>>
      [] id = "tencent" -> <<84, 101, 110, 99, 101, 110, 116>>
      [] id = "bcg" -> <<66, 67, 71>>
      [] id = "apple" -> <<65, 112, 112, 108, 101>>
      [] id = "deloitte" -> <<68, 101, 108, 111, 105, 116, 116, 101>>
Company(id, votes) == [id |-> id, name |-> CompanyName(id), votes |-> votes]
SeedCompanies ==
    << Company("google", 156), Company("goldman", 134), Company("mckinsey", 128),
       Company("meta", 112), Company("jpmorgan", 105), Company("hsbc", 98),
       Company("tencent", 95), Company("bcg", 89), Company("apple", 87),
       Company("deloitte", 82) >>
ACHIEVEMENT_BADGES ==
    [first_vote |-> 10, voter_10 |-> 50, voter_50 |-> 200, offer_shared |-> 100,
     verified_offer |-> 150, top_contributor |-> 0]
DemoUser(digits) == <<100, 101, 109, 111, 95, 117, 115, 101, 114>> \o digits
Achievement(badges, points, votes_cast, offers_shared) ==
    [badges |-> badges, points |-> points, votes_cast |-> votes_cast,
     offers_shared |-> offers_shared]
SeedAchievements ==
    (DemoUser(<<49>>) :> Achievement(<<"first_vote", "voter_10", "voter_50", "offer_shared",
                                        "top_contributor">>, 850, 65, 3))
    @@ (DemoUser(<<50>>) :> Achievement(<<"first_vote", "voter_10", "offer_shared",
                                           "verified_offer">>, 520, 35, 2))
    @@ (DemoUser(<<51>>) :> Achievement(<<"first_vote", "voter_10", "voter_50",
                                           "top_contributor">>, 480, 52, 1))
    @@ (DemoUser(<<52>>) :> Achievement(<<"first_vote", "voter_10", "offer_shared">>, 320, 28, 2))
    @@ (DemoUser(<<53>>) :> Achievement(<<"first_vote", "voter_10">>, 180, 15, 0))
    @@ (DemoUser(<<54>>) :> Achievement(<<"first_vote", "offer_shared">>, 160, 8, 1))
    @@ (DemoUser(<<55>>) :> Achievement(<<"first_vote", "voter_10">>, 140, 12, 0))
    @@ (DemoUser(<<56>>) :> Achievement(<<"first_vote">>, 95, 6, 0))
    @@ (DemoUser(<<57>>) :> Achievement(<<"first_vote", "offer_shared">>, 120, 5, 1))
    @@ (DemoUser(<<49, 48>>) :> Achievement(<<"first_vote">>, 75, 4, 0))

\* index of the first company with this id, 0 when there is none
FindCompany(company_id) ==
    IF \E i \in 1..Len(dream_companies) : dream_companies[i].id = company_id
    THEN CHOOSE i \in 1..Len(dream_companies) :
            /\ dream_companies[i].id = company_id
            /\ \A j \in 1..(i - 1) : dream_companies[j].id /= company_id
    ELSE 0

(***************************************************************************)
(* Company vote rate limit, app.py:1553-1566.  The check stores an empty   *)
(* vote record for a company id that has none, so it returns the dict it   *)
(* leaves.                                                                 *)
(***************************************************************************)
\* the vote lock never expiring
voted_ever(last_vote, start) == TRUE
\* app.py:1563
voted_since(last_vote, start) == dt_ge(last_vote, start)
AlreadyVotedMsg == "You already voted for this company today"
can_vote_for_company(user_id, company_id) ==
    LET votes1 == IF company_id \in DOMAIN company_votes THEN company_votes
                  ELSE DictPut(company_votes, company_id, EmptyDict)
        start == today_start(now)
    IN  IF user_id \in DOMAIN votes1[company_id]
           /\ voted_since(fromisoformat(votes1[company_id][user_id]), start)
        THEN [ok |-> FALSE, msg |-> AlreadyVotedMsg, company_votes |-> votes1]
        ELSE [ok |-> TRUE, msg |-> "", company_votes |-> votes1]

(***************************************************************************)
(* award_user_points, app.py:3260-3295, as the achievements it leaves.     *)
(***************************************************************************)
TopContributorPoints == 500
\* the badge entered twice
award_badge_twice(rec, badge) ==
    [rec EXCEPT !.badges = Append(Append(@, badge), badge),
                !.points = @ + ACHIEVEMENT_BADGES[badge]]
\* the badge paid for with its bonus points
award_badge_for_points(rec, badge) ==
    [rec EXCEPT !.badges = Append(@, badge), !.points = @ - ACHIEVEMENT_BADGES[badge]]
\* the badge given without its bonus points
award_badge_no_bonus(rec, badge) == [rec EXCEPT !.badges = Append(@, badge)]
\* app.py:3278-3279 (and 3281-3282, 3284-3285, 3290-3291)
award_badge(rec, badge) ==
    [rec EXCEPT !.badges = Append(@, badge), !.points = @ + ACHIEVEMENT_BADGES[badge]]
\* the badges without the one of ten votes
vote_badge_skip_ten(votes) ==
    IF votes = 1 THEN "first_vote"
    ELSE IF votes = 50 THEN "voter_50"
    ELSE ""
\* the badges given one vote late
vote_badge_late(votes) ==
    IF votes = 2 THEN "first_vote"
    ELSE IF votes = 11 THEN "voter_10"
    ELSE IF votes = 51 THEN "voter_50"
    ELSE ""
\* app.py:3277, 3280, 3283: the badge a vote count stands for
vote_badge(votes) ==
    IF votes = 1 THEN "first_vote"
    ELSE IF votes = 10 THEN "voter_10"
    ELSE IF votes = 50 THEN "voter_50"
    ELSE ""
award_user_points(achievements, user_id, points, action_type) ==
    LET ach1 == IF user_id \in DOMAIN achievements THEN achievements
                ELSE DictPut(achievements, user_id, Achievement(<<>>, 0, 0, 0))
        rec1 == [ach1[user_id] EXCEPT !.points = @ + points]
        rec2 == IF action_type = "vote"
                THEN LET rec == [rec1 EXCEPT !.votes_cast = @ + 1]
                         badge == vote_badge(rec.votes_cast)
                     IN  IF badge /= "" /\ badge \notin Range(rec.badges)
                         THEN award_badge(rec, badge)
                         ELSE rec
                ELSE IF action_type = "offer"
                THEN LET rec == [rec1 EXCEPT !.offers_shared = @ + 1]
                     IN  IF "offer_shared" \notin Range(rec.badges)
                         THEN award_badge(rec, "offer_shared")
                         ELSE rec
                ELSE rec1
        rec3 == IF rec2.points >= TopContributorPoints
                   /\ "top_contributor" \notin Range(rec2.badges)
                THEN [rec2 EXCEPT !.badges = Append(@, "top_contributor")]
                ELSE rec2
    IN  [ach1 EXCEPT ![user_id] = rec3]

(***************************************************************************)
(* POST /api/dream-jobs/companies/<company_id>/vote, app.py:3230-3257.     *)
(***************************************************************************)
VotePoints == 5
api_vote_company(user, company_id) ==
    IF user = NoUser
    THEN /\ resp' = [success |-> FALSE, message |-> "Please login to vote"]
         /\ UNCHANGED <<dream_companies, company_votes, user_achievements>>
    ELSE LET can == can_vote_for_company(user, company_id)
             i == FindCompany(company_id)
         IN  IF ~can.ok
             THEN /\ resp' = [success |-> FALSE, message |-> can.msg, already_voted |-> TRUE]
                  /\ company_votes' = can.company_votes
                  /\ UNCHANGED <<dream_companies, user_achievements>>
             ELSE IF i = 0
             THEN /\ resp' = [success |-> FALSE, message |-> "Company not found"]
                  /\ company_votes' = can.company_votes
                  /\ UNCHANGED <<dream_companies, user_achievements>>
             ELSE /\ dream_companies' =
                        [dream_companies EXCEPT ![i].votes = @ + 1]
                  /\ company_votes' =
                        [can.company_votes EXCEPT ![company_id] =
                            DictPut(@, user, isoformat(now))]
                  /\ user_achievements' =
                        award_user_points(user_achievements, user, VotePoints, "vote")
                  /\ resp' = [success |-> TRUE, votes |-> dream_companies[i].votes + 1]

(***************************************************************************)
(* Notifications, app.py:1578-1593.  A notification's text is its fixed    *)
(* part and the preview cut from the content.                              *)
(***************************************************************************)
NotificationCap == 100
\* nobody notified
add_no_notification(notifications, user_id, notif_type, content, source_user_id, post_id, id) ==
    notifications
add_notification(notifications, user_id, notif_type, content, source_user_id, post_id, id) ==
    LET notifs1 == IF user_id \in DOMAIN notifications THEN notifications
                   ELSE DictPut(notifications, user_id, <<>>)
        notif == [id |-> id, type |-> notif_type, content |-> content,
                  source_user |-> source_user_id, post_id |-> post_id, read |-> FALSE]
    IN  [notifs1 EXCEPT ![user_id] = Prefix(ListInsertFront(@, notif), NotificationCap)]

(***************************************************************************)
(* Private messages, app.py:2940-2942 and 3021-3070.                       *)
(***************************************************************************)
Underscore == 95
\* str < str: by code point, a proper prefix first
RECURSIVE StrLess(_, _)
StrLess(a, b) ==
    IF a = <<>> THEN b /= <<>>
    ELSE IF b = <<>> THEN FALSE
    ELSE IF Head(a) /= Head(b) THEN Head(a) < Head(b)
    ELSE StrLess(Tail(a), Tail(b))
\* the pair left in call order
unsorted_pair(a, b) == <<a, b>>
\* sorted([a, b])
sorted_pair(a, b) == IF StrLess(b, a) THEN <<b, a>> ELSE <<a, b>>
\* "_".join(pair)
join_pair(pair) == pair[1] \o <<Underscore>> \o pair[2]
get_conversation_id(user1_id, user2_id) == join_pair(sorted_pair(user1_id, user2_id))

\* str.strip()
Whitespace == {9, 10, 11, 12, 13, 32}
RECURSIVE LeadingSpace(_, _)
LeadingSpace(s, i) ==
    IF i > Len(s) \/ s[i] \notin Whitespace THEN i - 1 ELSE LeadingSpace(s, i + 1)
RECURSIVE TrailingSpace(_, _)
TrailingSpace(s, i) ==
    IF i < 1 \/ s[i] \notin Whitespace THEN Len(s) - i ELSE TrailingSpace(s, i - 1)
strip(s) ==
    IF LeadingSpace(s, 1) = Len(s) THEN <<>>
    ELSE SubSeq(s, LeadingSpace(s, 1) + 1, Len(s) - TrailingSpace(s, Len(s)))

MaxMessageLen == 1000
PreviewLen == 30
TooLongMsg == "Message too long (max 1000 characters)"
\* a receiver accepting only once a setting is stored
accepts_if_stored(other_user_id) ==
    LET other_settings == DictGet(user_settings, other_user_id, EmptyDict)
    IN  DictGet(other_settings, "receive_messages", FALSE)
\* app.py:3032-3033
accepts_messages(other_user_id) ==
    LET other_settings == DictGet(user_settings, other_user_id, EmptyDict)
    IN  DictGet(other_settings, "receive_messages", TRUE)
\* the length test refusing the limit itself
too_long_at_limit(content) == Len(content) >= MaxMessageLen
\* app.py:3042
too_long(content) == Len(content) > MaxMessageLen
api_send_message(user, other_user_id, raw) ==
    IF user = NoUser
    THEN /\ resp' = [success |-> FALSE, message |-> "Please login first"]
         /\ UNCHANGED <<private_messages, user_notifications, next_message, next_notification>>
    ELSE IF ~accepts_messages(other_user_id)
    THEN /\ resp' = [success |-> FALSE, message |-> "This user has disabled private messages"]
         /\ UNCHANGED <<private_messages, user_notifications, next_message, next_notification>>
    ELSE LET content == strip(raw)
         IN  IF content = <<>>
             THEN /\ resp' = [success |-> FALSE, message |-> "Message cannot be empty"]
                  /\ UNCHANGED <<private_messages, user_notifications, next_message,
                                 next_notification>>
             ELSE IF too_long(content)
             THEN /\ resp' = [success |-> FALSE, message |-> TooLongMsg]
                  /\ UNCHANGED <<private_messages, user_notifications, next_message,
                                 next_notification>>
             ELSE LET m == check_content_moderation(content)
                  IN  IF ~m.ok
                      THEN /\ resp' = [success |-> FALSE, message |-> "Message rejected",
                                       word |-> m.word]
                           /\ UNCHANGED <<private_messages, user_notifications,
                                          next_message, next_notification>>
                      ELSE LET conv_id == get_conversation_id(user, other_user_id)
                               messages1 == IF conv_id \in DOMAIN private_messages
                                            THEN private_messages
                                            ELSE DictPut(private_messages, conv_id, <<>>)
                               message == [id |-> next_message + 1, sender_id |-> user,
                                           receiver_id |-> other_user_id,
                                           content |-> content, read |-> FALSE]
                           IN  /\ private_messages' =
                                    [messages1 EXCEPT ![conv_id] = Append(@, message)]
                               /\ next_message' = next_message + 1
                               /\ user_notifications' =
                                    add_notification(user_notifications, other_user_id,
                                        "message",
                                        [text |-> "New message from Someone",
                                         preview |-> Prefix(content, PreviewLen)],
                                        user, 0, next_notification + 1)
                               /\ next_notification' = next_notification + 1
                               /\ resp' = [success |-> TRUE, message |-> message]

(***************************************************************************)
(* POST /api/user/settings, app.py:3092-3113 (@login_required).  `data` is *)
(* the JSON object the client posts.                                       *)
(***************************************************************************)
api_user_settings(user, data) ==
    IF user = NoUser
    THEN /\ resp' = [success |-> FALSE, message |-> "Please login first"]
         /\ UNCHANGED user_settings
    ELSE LET settings1 == IF user \in DOMAIN user_settings THEN user_settings
                          ELSE DictPut(user_settings, user, EmptyDict)
             settings2 == IF "receive_messages" \in DOMAIN data
                          THEN [settings1 EXCEPT ![user] =
                                    DictPut(@, "receive_messages", data.receive_messages)]
                          ELSE settings1
         IN  /\ user_settings' = settings2
             /\ resp' = [success |-> TRUE, settings |-> settings2[user]]

\* app.py:53-134, the seeded offers, numbered in source order
SeedOffer(id, company, company_id, position, salary, verified, likes) ==
    [id |-> id, user_id |-> SystemId, company |-> company,
     company_id |-> company_id, position |-> position, salary |-> salary,
     verified |-> verified, likes |-> likes]
SeedOffers ==
    << SeedOffer(1, CompanyName("google"), "google",
                 <<83, 111, 102, 116, 119, 97, 114, 101, 32, 69, 110, 103, 105, 110, 101, 101, 114>>,
                 <<72, 75, 36, 53, 48, 44, 48, 48, 48, 47, 109, 111, 110, 116, 104>>,
                 TRUE, 45),
       SeedOffer(2, CompanyName("goldman"), "goldman",
                 <<73, 110, 118, 101, 115, 116, 109, 101, 110, 116, 32, 66, 97, 110, 107, 105, 110, 103, 32, 65, 110, 97, 108, 121, 115, 116>>,
                 <<72, 75, 36, 52, 53, 44, 48, 48, 48, 47, 109, 111, 110, 116, 104, 32, 43, 32, 66, 111, 110, 117, 115>>,
                 TRUE, 67),
       SeedOffer(3, <<77, 99, 75, 105, 110, 115, 101, 121>>, "mckinsey",
                 <<66, 117, 115, 105, 110, 101, 115, 115, 32, 65, 110, 97, 108, 121, 115, 116>>,
                 <<72, 75, 36, 52, 50, 44, 48, 48, 48, 47, 109, 111, 110, 116, 104>>,
                 TRUE, 38),
       SeedOffer(4, CompanyName("meta"), "meta",
                 <<80, 114, 111, 100, 117, 99, 116, 32, 77, 97, 110, 97, 103, 101, 114>>,
                 <<72, 75, 36, 53, 53, 44, 48, 48, 48, 47, 109, 111, 110, 116, 104>>,
                 TRUE, 52),
       SeedOffer(5, CompanyName("deloitte"), "deloitte",
                 <<65, 117, 100, 105, 116, 32, 65, 115, 115, 111, 99, 105, 97, 116, 101>>,
                 <<72, 75, 36, 50, 50, 44, 48, 48, 48, 47, 109, 111, 110, 116, 104>>,
                 TRUE, 28) >>

(***************************************************************************)
(* POST /api/verification, app.py:1754-1779 (@login_required).             *)
(***************************************************************************)
api_verification(user, institution, student_number) ==
    IF user = NoUser
    THEN /\ resp' = [success |-> FALSE, message |-> "Please login first"]
         /\ UNCHANGED users_db
    ELSE IF institution = <<>> \/ strip(student_number) = <<>>
    THEN /\ resp' = [success |-> FALSE,
                     message |-> "Please fill in institution and student number"]
         /\ UNCHANGED users_db
    ELSE /\ users_db' = [users_db EXCEPT ![user].verified = TRUE]
         /\ resp' = [success |-> TRUE, status |-> "approved"]

(***************************************************************************)
(* POST /api/dream-jobs/offers, app.py:3320-3379 (@login_required).        *)
(***************************************************************************)
OfferPoints == 50
NoCompany == ""
NotDisclosed == <<78, 111, 116, 32, 100, 105, 115, 99, 108, 111, 115, 101, 100>>
\* the id the n-th uuid4 draw gives an offer
NewOfferId(n) == Len(SeedOffers) + n
\* str.lower() of text in ASCII letters, digits, signs and CJK characters
lower(text) == [i \in 1..Len(text) |-> IF text[i] \in 65..90 THEN text[i] + 32 ELSE text[i]]
\* app.py:3345-3349, the id of the first company of that name, if any
find_company_id(company) ==
    LET hits == {i \in 1..Len(dream_companies) :
                    lower(dream_companies[i].name) = lower(company)}
    IN  IF hits = {} THEN NoCompany
        ELSE dream_companies[CHOOSE i \in hits : \A j \in hits : i <= j].id
\* the bonus given whether or not the user is verified
bonus_for_anyone(achievements, user, verified) ==
    IF "verified_offer" \notin
            Range(DictGet(achievements, user, [badges |-> <<>>]).badges)
    THEN LET ach1 == IF user \in DOMAIN achievements THEN achievements
                     ELSE DictPut(achievements, user, Achievement(<<>>, 0, 0, 0))
         IN  [ach1 EXCEPT ![user].badges = Append(@, "verified_offer"),
                          ![user].points = @ + ACHIEVEMENT_BADGES.verified_offer]
    ELSE achievements
\* app.py:3373-3377
verified_bonus(achievements, user, verified) ==
    IF verified /\ "verified_offer" \notin
            Range(DictGet(achievements, user, [badges |-> <<>>]).badges)
    THEN LET ach1 == IF user \in DOMAIN achievements THEN achievements
                     ELSE DictPut(achievements, user, Achievement(<<>>, 0, 0, 0))
         IN  [ach1 EXCEPT ![user].badges = Append(@, "verified_offer"),
                          ![user].points = @ + ACHIEVEMENT_BADGES.verified_offer]
    ELSE achievements
api_submit_offer(user, raw_company, raw_position, raw_salary) ==
    IF user = NoUser
    THEN /\ resp' = [success |-> FALSE, message |-> "Please login first"]
         /\ UNCHANGED <<offer_showcase, next_offer, user_achievements>>
    ELSE LET company == strip(raw_company)
             position == strip(raw_position)
             salary == strip(raw_salary)
         IN  IF company = <<>> \/ position = <<>>
             THEN /\ resp' = [success |-> FALSE,
                              message |-> "Company and position are required"]
                  /\ UNCHANGED <<offer_showcase, next_offer, user_achievements>>
             ELSE LET m == check_content_moderation(
                              company \o <<32>> \o position \o <<32>> \o salary)
                  IN  IF ~m.ok
                      THEN /\ resp' = [success |-> FALSE, message |-> "Offer rejected",
                                       word |-> m.word]
                           /\ UNCHANGED <<offer_showcase, next_offer, user_achievements>>
                      ELSE LET new_offer ==
                                   [id |-> NewOfferId(next_offer + 1), user_id |-> user,
                                    company |-> company,
                                    company_id |-> find_company_id(company),
                                    position |-> position,
                                    salary |-> IF salary /= <<>> THEN salary
                                               ELSE NotDisclosed,
                                    verified |-> users_db[user].verified, likes |-> 0]
                           IN  /\ offer_showcase' = ListInsertFront(offer_showcase, new_offer)
                               /\ next_offer' = next_offer + 1
                               /\ user_achievements' =
                                     verified_bonus(
                                         award_user_points(user_achievements, user,
                                                           OfferPoints, "offer"),
                                         user, users_db[user].verified)
                               /\ resp' = [success |-> TRUE, offer |-> new_offer.id]

(***************************************************************************)
(* POST /api/posts/<post_id>/comment, app.py:2814-2845.                    *)
(***************************************************************************)
CommentPreviewLen == 50
LoginToComment == "Please complete registration and login to participate in comment interactions"
\* the id the n-th uuid4 draw gives a comment or a reply
NewCommentId(n) == NumSeedComments + n
api_add_comment(user, post_id, content) ==
    IF user = NoUser
    THEN /\ resp' = [success |-> FALSE, message |-> LoginToComment]
         /\ UNCHANGED <<experience_posts, user_notifications, next_comment,
                        next_notification>>
    ELSE LET m == check_content_moderation(content)
             i == FindPost(post_id)
         IN  IF ~m.ok
             THEN /\ resp' = [success |-> FALSE, message |-> "Comment rejected",
                              word |-> m.word]
                  /\ UNCHANGED <<experience_posts, user_notifications, next_comment,
                                 next_notification>>
             ELSE IF i = 0
             THEN /\ resp' = [success |-> FALSE, message |-> "Post not found"]
                  /\ UNCHANGED <<experience_posts, user_notifications, next_comment,
                                 next_notification>>
             ELSE LET comment == [id |-> NewCommentId(next_comment + 1),
                                  author_id |-> user, content |-> content,
                                  replies |-> <<>>]
                      author == experience_posts[i].author_id
                  IN  /\ experience_posts' =
                            [experience_posts EXCEPT ![i].comments = Append(@, comment)]
                      /\ next_comment' = next_comment + 1
                      /\ IF author /= <<>> /\ author /= user
                         THEN /\ user_notifications' =
                                   add_notification(user_notifications, author, "comment",
                                       [text |-> "New comment on your post",
                                        preview |-> Prefix(content, CommentPreviewLen)],
                                       user, post_id, next_notification + 1)
                              /\ next_notification' = next_notification + 1
                         ELSE UNCHANGED <<user_notifications, next_notification>>
                      /\ resp' = [success |-> TRUE, comment |-> comment.id]

(***************************************************************************)
(* POST /api/posts/<post_id>/comments/<comment_id>/reply,                  *)
(* app.py:2848-2886.                                                       *)
(***************************************************************************)
MaxReplyLen == 300
\* index of the first comment of the post with this id, 0 when there is none
FindComment(post, comment_id) ==
    IF \E j \in 1..Len(post.comments) : post.comments[j].id = comment_id
    THEN CHOOSE j \in 1..Len(post.comments) :
            /\ post.comments[j].id = comment_id
            /\ \A k \in 1..(j - 1) : post.comments[k].id /= comment_id
    ELSE 0
api_add_reply(user, post_id, comment_id, content) ==
    IF user = NoUser
    THEN /\ resp' = [success |-> FALSE, message |-> LoginToComment]
         /\ UNCHANGED <<experience_posts, user_notifications, next_comment,
                        next_notification>>
    ELSE IF Len(content) > MaxReplyLen
    THEN /\ resp' = [success |-> FALSE,
                     message |-> "Reply must be 300 characters or less"]
         /\ UNCHANGED <<experience_posts, user_notifications, next_comment,
                        next_notification>>
    ELSE LET m == check_content_moderation(content)
             i == FindPost(post_id)
         IN  IF ~m.ok
             THEN /\ resp' = [success |-> FALSE, message |-> "Reply rejected",
                              word |-> m.word]
                  /\ UNCHANGED <<experience_posts, user_notifications, next_comment,
                                 next_notification>>
             ELSE IF i = 0
             THEN /\ resp' = [success |-> FALSE, message |-> "Post not found"]
                  /\ UNCHANGED <<experience_posts, user_notifications, next_comment,
                                 next_notification>>
             ELSE LET j == FindComment(experience_posts[i], comment_id)
                  IN  IF j = 0
                      THEN /\ resp' = [success |-> FALSE, message |-> "Comment not found"]
                           /\ UNCHANGED <<experience_posts, user_notifications,
                                          next_comment, next_notification>>
                      ELSE LET reply == [id |-> NewCommentId(next_comment + 1),
                                         author_id |-> user, content |-> content]
                               author == experience_posts[i].comments[j].author_id
                           IN  /\ experience_posts' =
                                     [experience_posts EXCEPT
                                        ![i].comments[j].replies = Append(@, reply)]
                               /\ next_comment' = next_comment + 1
                               /\ IF author /= <<>> /\ author /= user
                                  THEN /\ user_notifications' =
                                            add_notification(user_notifications, author,
                                                "reply",
                                                [text |-> "New reply to your comment",
                                                 preview |-> Prefix(content, CommentPreviewLen)],
                                                user, post_id, next_notification + 1)
                                       /\ next_notification' = next_notification + 1
                                  ELSE UNCHANGED <<user_notifications, next_notification>>
                               /\ resp' = [success |-> TRUE, reply |-> reply.id]

(***************************************************************************)
(* GET /api/messages/<other_user_id>, app.py:2987-3018 (@login_required).  *)
(***************************************************************************)
\* the message marked read whoever received it
mark_all(msg, uid) == [msg EXCEPT !.read = TRUE]
\* app.py:3001-3003
mark_read(msg, uid) == IF msg.receiver_id = uid THEN [msg EXCEPT !.read = TRUE] ELSE msg
api_get_messages(user, other_user_id) ==
    IF user = NoUser
    THEN /\ resp' = [success |-> FALSE, message |-> "Please login first"]
         /\ UNCHANGED private_messages
    ELSE LET conv_id == get_conversation_id(user, other_user_id)
         IN  IF conv_id \in DOMAIN private_messages
             THEN /\ private_messages' =
                        [private_messages EXCEPT ![conv_id] =
                            [k \in 1..Len(@) |-> mark_read(@[k], user)]]
                  /\ resp' = [success |-> TRUE, messages |-> private_messages'[conv_id]]
             ELSE /\ resp' = [success |-> TRUE, messages |-> <<>>]
                  /\ UNCHANGED private_messages

(***************************************************************************)
(* GET /api/messages/unread-count, app.py:3073-3088 (@login_required).     *)
(***************************************************************************)
\* str.split(sep) for a one-character separator
RECURSIVE split(_, _)
split(text, sep) ==
    IF \E i \in 1..Len(text) : text[i] = sep
    THEN LET i == CHOOSE i \in 1..Len(text) :
                     text[i] = sep /\ \A k \in 1..(i - 1) : text[k] /= sep
         IN  <<SubSeq(text, 1, i - 1)>> \o split(SubSeq(text, i + 1, Len(text)), sep)
    ELSE <<text>>
\* app.py:3086, the unread messages of one conversation that uid received
unread_in(messages, uid) ==
    Cardinality({k \in 1..Len(messages) :
                    messages[k].receiver_id = uid /\ ~messages[k].read})
RECURSIVE sum_unread(_, _, _)
sum_unread(messages, conv_ids, uid) ==
    IF conv_ids = {} THEN 0
    ELSE LET conv_id == CHOOSE c \in conv_ids : TRUE
         IN  (IF uid \in Range(split(conv_id, Underscore))
              THEN unread_in(messages[conv_id], uid) ELSE 0)
             + sum_unread(messages, conv_ids \ {conv_id}, uid)
unread_count(messages, uid) == sum_unread(messages, DOMAIN messages, uid)
api_messages_unread_count(user) ==
    IF user = NoUser
    THEN resp' = [success |-> FALSE, message |-> "Please login first"]
    ELSE resp' = [success |-> TRUE, count |-> unread_count(private_messages, user)]

(***************************************************************************)
(* GET /api/messages/conversations, app.py:2945-2984 (@login_required).    *)
(* created_at is the time of the send and message ids are drawn in send    *)
(* order, so the id of the last message stands for last_message_time.      *)
(***************************************************************************)
ConversationPreviewLen == 50
\* app.py:2960, the pieces of the conversation id that are not uid
others_in(conv_id, uid) ==
    SelectSeq(split(conv_id, Underscore), LAMBDA u : u /= uid)
\* app.py:2956-2958, the non-empty conversations with uid among the pieces
conversations_of(messages, uid) ==
    {c \in DOMAIN messages :
        uid \in Range(split(c, Underscore)) /\ messages[c] /= <<>>}
\* app.py:2959-2979, the entry of one conversation
conversation_entry(conv_id, messages, uid) ==
    LET other_id == others_in(conv_id, uid)[1]
        last_msg == messages[Len(messages)]
    IN  [id |-> conv_id,
         other_user_id |-> other_id,
         other_user_verified |->
            IF other_id \in DOMAIN users_db THEN users_db[other_id].verified ELSE FALSE,
         last_message |->
            Prefix(last_msg.content, ConversationPreviewLen)
            \o (IF Len(last_msg.content) > ConversationPreviewLen
                THEN <<46, 46, 46>> ELSE <<>>),
         last_message_time |-> last_msg.id,
         unread_count |-> unread_in(messages, uid)]
\* app.py:2982, the entries with the newest last message first
RECURSIVE newest_first(_)
newest_first(entries) ==
    IF entries = {} THEN <<>>
    ELSE LET e == CHOOSE x \in entries :
                    \A y \in entries : y.last_message_time <= x.last_message_time
         IN  <<e>> \o newest_first(entries \ {e})
api_get_conversations(user) ==
    IF user = NoUser
    THEN resp' = [success |-> FALSE, message |-> "Please login first"]
    ELSE LET mine == conversations_of(private_messages, user)
         IN  IF \E c \in mine : others_in(c, user) = <<>>
             THEN \* app.py:2960: [0] of an empty list raises IndexError
                  resp' = [success |-> FALSE, error |-> "IndexError"]
             ELSE resp' = [success |-> TRUE,
                           conversations |->
                               newest_first({conversation_entry(c, private_messages[c], user) :
                                                c \in mine})]

(***************************************************************************)
(* Requests.  Each action is one request handled from start to finish;     *)
(* the caller, the ids and the text are what the client sends.             *)
(***************************************************************************)
OkText == <<27491, 24120, 20869, 23481>>
BadText == <<35831, 25214, 20154, 20195, 20889, 35770, 25991>>
PostTexts == {OkText, BadText}

\* message texts a client sends, by name
Hi == <<104, 105>>
Filler(n) == [i \in 1..n |-> 120]
ExactText == Filler(MaxMessageLen)
OverText == Filler(MaxMessageLen + 1)
BadExactText == Filler(MaxMessageLen - Len(BadText)) \o BadText
MsgText(input) ==
    CASE input = "hi" -> Hi
      [] input = "padded" -> <<32>> \o Hi \o <<13, 10>>
      [] input = "blank" -> <<32, 9, 10>>
      [] input = "bad" -> BadText
      [] input = "exact" -> ExactText
      [] input = "over" -> OverText
      [] input = "padded_exact" -> <<32>> \o ExactText \o <<10>>
      [] input = "padded_over" -> <<32>> \o OverText \o <<10>>
      [] input = "bad_exact" -> BadExactText
ShortInputs == {"hi", "padded", "blank", "bad"}
LongInputs == {"exact", "over", "padded_exact", "padded_over", "bad_exact"}

\* the clock moves on: a later tick of the day, or midnight of the next day
Tick ==
    /\ \/ /\ now.tick + 1 \in Ticks
          /\ now' = [now EXCEPT !.tick = now.tick + 1]
       \/ /\ now.day < MaxDay
          /\ now' = [day |-> now.day + 1, tick |-> 0]
    /\ UNCHANGED <<postVars, voteVars, msgVars, extraVars, resp, histVars>>

\* the like history: a like is recorded with its day, an unlike erases it
HistAfterLike(user, post_id) ==
    IF "liked" \in DOMAIN resp'
    THEN IF resp'.liked
         THEN hist_likes \cup {<<user, post_id, now.day>>}
         ELSE {h \in hist_likes : ~(h[1] = user /\ h[2] = post_id)}
    ELSE hist_likes

TaggedCreateRequest(user, content, dream, custom_tags) ==
    /\ api_create_post(user, OkText, content, dream, custom_tags)
    /\ UNCHANGED <<now, threads, user_likes, user_favorites, voteVars, msgVars, users_db,
                   offer_showcase, next_comment, next_offer, histVars>>
CreateRequest(user, content, dream) == TaggedCreateRequest(user, content, dream, <<>>)
LikeRequest(user, post_id) ==
    /\ api_like_post(user, post_id)
    /\ hist_likes' = HistAfterLike(user, post_id)
    /\ UNCHANGED <<now, user_favorites, next_post, voteVars, msgVars, extraVars, hist_purged,
                   hist_req, hist_votes, hist_calls>>
VoteRequest(user, post_id) ==
    /\ api_vote_post(user, post_id)
    /\ UNCHANGED <<now, user_likes, user_favorites, next_post, voteVars, msgVars, extraVars, histVars>>
FavoriteRequest(user, post_id) ==
    /\ api_toggle_favorite(user, post_id)
    /\ UNCHANGED <<now, experience_posts, user_likes, next_post, voteVars, msgVars, extraVars,
                   histVars>>
\* the delete history: the post a successful delete removed and the users
\* whose favorites held it
HistAfterDelete(user, post_id) ==
    IF resp'.success
    THEN [post_id |-> post_id,
          users |-> {u \in DOMAIN user_favorites : post_id \in Range(user_favorites[u])}]
    ELSE hist_purged
DeleteRequest(user, post_id) ==
    /\ api_delete_post(user, post_id)
    /\ hist_purged' = HistAfterDelete(user, post_id)
    /\ UNCHANGED <<now, user_likes, next_post, voteVars, msgVars, extraVars, hist_likes, hist_req,
                   hist_votes, hist_calls>>

\* the vote history: an accepted company vote is recorded with its day
HistAfterCompanyVote(user, company_id) ==
    IF resp'.success THEN hist_votes \cup {<<user, company_id, now.day>>} ELSE hist_votes
VoteCompanyRequest(user, company_id) ==
    /\ api_vote_company(user, company_id)
    /\ hist_req' = [op |-> "vote_company", user |-> user, target |-> company_id]
    /\ hist_votes' = HistAfterCompanyVote(user, company_id)
    /\ UNCHANGED <<now, postVars, msgVars, extraVars, hist_likes, hist_purged>>
\* a call of award_user_points on its own, as the handlers make it
AwardCall(user, points, action_type) ==
    /\ user_achievements' = award_user_points(user_achievements, user, points, action_type)
    /\ hist_req' = [op |-> "award", user |-> user, target |-> action_type]
    /\ UNCHANGED <<now, postVars, dream_companies, company_votes, msgVars, extraVars, resp,
                   hist_likes, hist_purged, hist_votes>>
\* one more call by this user, accepted or not
CountCall(user, accepted) ==
    [hist_calls EXCEPT ![user] = [calls |-> @.calls + 1,
                                  accepted |-> @.accepted + (IF accepted THEN 1 ELSE 0)]]
SendRequest(user, other_user_id, input) ==
    /\ api_send_message(user, other_user_id, MsgText(input))
    /\ hist_req' = [op |-> "send", user |-> user, target |-> other_user_id,
                    input |-> input]
    /\ UNCHANGED <<now, postVars, voteVars, user_settings, extraVars, hist_likes,
                   hist_purged, hist_votes, hist_calls>>
SettingsRequest(user, data) ==
    /\ api_user_settings(user, data)
    /\ hist_req' = [op |-> "settings", user |-> user, target |-> user, input |-> ""]
    /\ UNCHANGED <<now, postVars, voteVars, private_messages, user_notifications,
                   next_message, next_notification, extraVars, hist_likes, hist_purged,
                   hist_votes, hist_calls>>
PostRequest(user, title, content, dream, custom_tags) ==
    /\ api_create_post(user, title, content, dream, custom_tags)
    /\ hist_req' = [op |-> "post", user |-> user, texts |-> <<title, content>>]
    /\ UNCHANGED <<now, threads, user_likes, user_favorites, voteVars, msgVars, users_db,
                   offer_showcase, next_comment, next_offer, hist_likes, hist_purged,
                   hist_votes, hist_calls>>
CommentRequest(user, post_id, content) ==
    /\ api_add_comment(user, post_id, content)
    /\ hist_req' = [op |-> "comment", user |-> user, target |-> post_id,
                    texts |-> <<content>>]
    /\ UNCHANGED <<now, threads, user_likes, user_favorites, next_post, voteVars, private_messages,
                   user_settings, next_message, users_db, offer_showcase,
                   custom_tags_history, next_offer, hist_likes, hist_purged, hist_votes,
                   hist_calls>>
ReplyRequest(user, post_id, comment_id, content) ==
    /\ api_add_reply(user, post_id, comment_id, content)
    /\ hist_req' = [op |-> "reply", user |-> user, target |-> <<post_id, comment_id>>,
                    texts |-> <<content>>]
    /\ UNCHANGED <<now, threads, user_likes, user_favorites, next_post, voteVars, private_messages,
                   user_settings, next_message, users_db, offer_showcase,
                   custom_tags_history, next_offer, hist_likes, hist_purged, hist_votes,
                   hist_calls>>
OfferRequest(user, company, position, salary) ==
    /\ api_submit_offer(user, company, position, salary)
    /\ hist_req' = [op |-> "offer", user |-> user,
                    texts |-> <<company, position, salary>>]
    /\ UNCHANGED <<now, threads, postVars, dream_companies, company_votes, msgVars, users_db,
                   custom_tags_history, next_comment, hist_likes, hist_purged, hist_votes,
                   hist_calls>>
VerificationRequest(user, institution, student_number) ==
    /\ api_verification(user, institution, student_number)
    /\ hist_req' = [op |-> "verify", user |-> user]
    /\ UNCHANGED <<now, threads, postVars, voteVars, msgVars, offer_showcase,
                   custom_tags_history, next_comment, next_offer, hist_likes, hist_purged,
                   hist_votes, hist_calls>>
GetMessagesRequest(user, other_user_id) ==
    /\ api_get_messages(user, other_user_id)
    /\ hist_req' = [op |-> "fetch", user |-> user, target |-> other_user_id]
    /\ UNCHANGED <<now, postVars, voteVars, user_notifications, user_settings,
                   next_message, next_notification, extraVars, hist_likes, hist_purged,
                   hist_votes, hist_calls>>
UnreadCountRequest(user) ==
    /\ api_messages_unread_count(user)
    /\ hist_req' = [op |-> "unread", user |-> user]
    /\ UNCHANGED <<now, postVars, voteVars, msgVars, extraVars, hist_likes, hist_purged,
                   hist_votes, hist_calls>>
ConversationsRequest(user) ==
    /\ api_get_conversations(user)
    /\ hist_req' = [op |-> "conversations", user |-> user]
    /\ UNCHANGED <<now, postVars, voteVars, msgVars, extraVars, hist_likes, hist_purged,
                   hist_votes, hist_calls>>

\* a call of check_content_moderation on its own; the function reads the
\* word list and its argument and writes nothing
ModerateCall(text) ==
    /\ resp' = [success |-> check_content_moderation(text).ok,
                word |-> check_content_moderation(text).word]
    /\ hist_req' = [op |-> "moderate", input |-> text]
    /\ UNCHANGED <<now, postVars, voteVars, msgVars, extraVars, hist_likes, hist_purged, hist_votes,
                   hist_calls>>

InitPosts ==
    /\ experience_posts = SeedPosts
    /\ user_likes = EmptyDict
    /\ user_favorites = EmptyDict
    /\ next_post = 0
InitVotes ==
    /\ dream_companies = SeedCompanies
    /\ company_votes = EmptyDict
    /\ user_achievements = SeedAchievements
InitMessages ==
    /\ private_messages = EmptyDict
    /\ user_notifications = EmptyDict
    /\ user_settings = EmptyDict
    /\ next_message = 0
    /\ next_notification = 0
InitExtra ==
    /\ users_db = [u \in Users |-> [verified |-> FALSE]]
    /\ offer_showcase = SeedOffers
    /\ custom_tags_history = EmptyDict
    /\ next_comment = 0
    /\ next_offer = 0
    /\ threads = [t \in Threads |-> [pc |-> "idle", runs |-> 0]]
NoRequest == [op |-> "none"]
NoCalls == [u \in Users |-> [calls |-> 0, accepted |-> 0]]
InitHistRest ==
    /\ hist_purged = [post_id |-> 0, users |-> {}]
    /\ hist_req = NoRequest
    /\ hist_votes = {}
    /\ hist_calls = NoCalls
InitHist == hist_likes = {} /\ InitHistRest
InitResp == resp = [success |-> TRUE]

(***************************************************************************)
(* Spec: posts are created, liked, voted for and deleted while the clock   *)
(* runs.  One post is created; U1 acts on it and on the seeded dream-job   *)
(* post 2, U2 on the created post.                                         *)
(***************************************************************************)
CreatedIds == {NewPostId(1)}
PostRequests == {<<U1, 2>>, <<U1, NewPostId(1)>>, <<U2, NewPostId(1)>>}

CreatePost ==
    \E user \in Callers, content \in PostTexts, dream \in BOOLEAN :
        /\ NewPostId(next_post + 1) \in CreatedIds
        /\ CreateRequest(user, content, dream)
LikePost == \E r \in PostRequests : LikeRequest(r[1], r[2])
VotePost == \E r \in PostRequests : VoteRequest(r[1], r[2])
DeletePost == \E r \in PostRequests : DeleteRequest(r[1], r[2])

Init ==
    /\ now = [day |-> 0, tick |-> 0]
    /\ InitPosts
    /\ InitVotes
    /\ InitMessages
    /\ InitExtra
    /\ InitResp
    /\ InitHist
Next == Tick \/ CreatePost \/ LikePost \/ VotePost \/ DeletePost
Spec == Init /\ [][Next]_vars

(***************************************************************************)
(* SpecCap: the daily like limit.  The run starts from a state the program *)
(* is in after a day of use: DailyLikeLimit + 1 posts were created, and U1 *)
(* liked all but the two newest today (at midnight of day 0), which leaves *)
(* U1 one like short of the limit.  The two newest are the targets of the  *)
(* requests; U1 may have liked the first of them the day before.  U2 wrote *)
(* the targets and may delete them.                                        *)
(***************************************************************************)
NumBackground == DailyLikeLimit - 1
BackgroundIds == {NewPostId(n) : n \in 1..NumBackground}
FirstTarget == NewPostId(NumBackground + 1)
SecondTarget == NewPostId(NumBackground + 2)
CapTargets == {FirstTarget, SecondTarget}
NumCapPosts == NumBackground + Cardinality(CapTargets)
Yesterday == [day |-> -1, tick |-> 1]
CapPost(post_id, likers) ==
    [id |-> post_id,
     author_id |-> IF post_id \in CapTargets THEN U2 ELSE AnonymousId,
     likes |-> Len(likers), liked_by |-> likers,
     votes |-> 0, voted_by |-> <<>>, is_dream_job |-> FALSE, comments |-> <<>>]
CapPosts(old) ==
    [i \in 1..NumCapPosts |->
        LET post_id == NewPostId(NumCapPosts + 1 - i)
        IN  CapPost(post_id, IF post_id \in BackgroundIds \cup old THEN <<U1>> ELSE <<>>)]
    \o SeedPosts
CapLikes(old) ==
    [u \in {U1} |->
        [p \in BackgroundIds \cup old |->
            IF p \in old THEN isoformat(Yesterday)
            ELSE isoformat([day |-> 0, tick |-> 0])]]

InitCap ==
    \E old \in SUBSET {FirstTarget} :
        /\ now = [day |-> 0, tick |-> 0]
        /\ experience_posts = CapPosts(old)
        /\ user_likes = CapLikes(old)
        /\ user_favorites = EmptyDict
        /\ next_post = NumCapPosts
        /\ InitVotes
        /\ InitMessages
        /\ InitExtra
        /\ InitResp
        /\ InitHistRest
        /\ hist_likes = {<<U1, p, 0>> : p \in BackgroundIds} \cup {<<U1, p, -1>> : p \in old}
CapLikeIds == CapTargets \cup {NewPostId(1)}
CapLike == \E post_id \in CapLikeIds : LikeRequest(U1, post_id)
CapDelete == \E post_id \in CapTargets : DeleteRequest(U2, post_id)
NextCap == Tick \/ CapLike \/ CapDelete
SpecCap == InitCap /\ [][NextCap]_vars

(***************************************************************************)
(* SpecFav: favorites and deletion.  One post is created by either user or *)
(* without a login; anyone, logged in or not, toggles favorites on it and  *)
(* on the seeded post 2 and asks for their deletion, before and after the  *)
(* post exists.                                                            *)
(***************************************************************************)
FavIds == {2} \cup CreatedIds
FavCreate ==
    \E user \in Callers :
        /\ NewPostId(next_post + 1) \in CreatedIds
        /\ CreateRequest(user, OkText, FALSE)
FavToggle == \E user \in Callers, post_id \in FavIds : FavoriteRequest(user, post_id)
FavDelete == \E user \in Callers, post_id \in FavIds : DeleteRequest(user, post_id)
NextFav == FavCreate \/ FavToggle \/ FavDelete
SpecFav == Init /\ [][NextFav]_vars

(***************************************************************************)
(* SpecVote: company votes while the clock runs.  U1 votes for the first   *)
(* three companies and for a company that does not exist, a caller who is  *)
(* not logged in for the first company.                                    *)
(***************************************************************************)
UnknownCompany == "nope"
CompanyRequests ==
    {<<U1, "google">>, <<U1, "goldman">>, <<U1, "mckinsey">>, <<U1, UnknownCompany>>,
     <<NoUser, "google">>}
VoteCompany ==
    \E r \in CompanyRequests :
        /\ VoteCompanyRequest(r[1], r[2])
        /\ UNCHANGED hist_calls
NextVote == Tick \/ VoteCompany
SpecVote == Init /\ [][NextVote]_vars

(***************************************************************************)
(* SpecTenDays: U1, who has no achievement record, votes at most once a    *)
(* day, each time for a company not voted for before: the first company is *)
(* any of the list, the following ones come in list order, wrapping round. *)
(* Days may pass without a vote.                                           *)
(***************************************************************************)
MaxVoteDay == 10
NumCompanies == Len(SeedCompanies)
NextCompany(i) == (i % NumCompanies) + 1
CompanyIndex(company_id) ==
    CHOOSE j \in 1..NumCompanies : SeedCompanies[j].id = company_id
NextDay ==
    /\ now.day < MaxVoteDay
    /\ now' = [day |-> now.day + 1, tick |-> 0]
    /\ UNCHANGED <<postVars, voteVars, msgVars, extraVars, resp, histVars>>
DailyVote ==
    \E i \in 1..NumCompanies :
        /\ hist_calls[U1].calls < NumCompanies
        /\ IF hist_req.op = "none" THEN TRUE
           ELSE /\ \A h \in hist_votes : h[3] < now.day
                /\ i = NextCompany(CompanyIndex(hist_req.target))
        /\ VoteCompanyRequest(U1, SeedCompanies[i].id)
        /\ hist_calls' = CountCall(U1, resp'.success)
NextTenDays == NextDay \/ DailyVote
SpecTenDays == Init /\ [][NextTenDays]_vars

(***************************************************************************)
(* SpecAward: award_user_points called for U1 and U2, neither of whom has  *)
(* an achievement record, with the arguments its two callers pass          *)
(* (app.py:3253 and 3372).                                                 *)
(***************************************************************************)
MaxAwards == 51
MaxOffers == 2
AwardVote ==
    /\ hist_calls[U1].calls < MaxAwards
    /\ AwardCall(U1, VotePoints, "vote")
    /\ hist_calls' = CountCall(U1, TRUE)
AwardOffer ==
    \E user \in Users :
        /\ DictGet(user_achievements, user, Achievement(<<>>, 0, 0, 0)).offers_shared
                < MaxOffers
        /\ AwardCall(user, OfferPoints, "offer")
        /\ UNCHANGED hist_calls
NextAward == AwardVote \/ AwardOffer
SpecAward == Init /\ [][NextAward]_vars

(***************************************************************************)
(* SpecMsg: private messages with short texts.  Anyone, logged in or not,  *)
(* writes to either user or to an id nobody registered; users switch       *)
(* receiving on and off.                                                   *)
(***************************************************************************)
MaxMessages == 2
Stranger == <<97>>
Receivers == Users \cup {Stranger}
SettingsData == {EmptyDict, [receive_messages |-> TRUE], [receive_messages |-> FALSE]}
SendMessage ==
    \E user \in Callers, other \in Receivers, input \in ShortInputs :
        /\ next_message < MaxMessages
        /\ SendRequest(user, other, input)
ChangeSettings ==
    \E user \in Callers, data \in SettingsData : SettingsRequest(user, data)
NextMsg == SendMessage \/ ChangeSettings
SpecMsg == Init /\ [][NextMsg]_vars

(***************************************************************************)
(* SpecLen: U1, and a caller who is not logged in, write to U2 texts at,   *)
(* over and under the length limit, with and without surrounding white     *)
(* space; U2 switches receiving on and off.                                *)
(***************************************************************************)
SendLong ==
    \E user \in {U1, NoUser}, input \in ShortInputs \cup LongInputs :
        /\ next_message < MaxMessages
        /\ SendRequest(user, U2, input)
ReceiverSettings == \E data \in SettingsData : SettingsRequest(U2, data)
NextLen == SendLong \/ ReceiverSettings
SpecLen == Init /\ [][NextLen]_vars

(***************************************************************************)
(* SpecMod: check_content_moderation applied to every text of up to        *)
(* MaxTextLen characters taken from three words of the list, and to the    *)
(* two texts of the documented scenario, one call a run.                   *)
(***************************************************************************)
MaxTextLen == 4
ModAlphabet == {20195, 20889, 32771, 24191, 21578}
ModTexts ==
    UNION {[1..n -> ModAlphabet] : n \in 0..MaxTextLen} \cup {OkText, BadText}
Moderate ==
    \E text \in ModTexts :
        /\ hist_req.op = "none"
        /\ ModerateCall(text)
NextMod == Moderate
SpecMod == Init /\ [][NextMod]_vars

(***************************************************************************)
(* SpecWrite: every request that writes moderated text, with clean and     *)
(* prohibited texts in each field.                                         *)
(***************************************************************************)
MaxWrites == 2
TagAI == <<97, 105>>
TagJob == <<27714, 32844>>
TagShort == <<97>>
LongReply == Filler(MaxReplyLen + 1)
Blank == <<32>>
WritesDone == next_post + next_comment + next_message + next_offer
WritePost ==
    \E texts \in {<<OkText, OkText>>, <<OkText, BadText>>, <<BadText, OkText>>},
       tags \in {<<>>, <<TagAI, TagJob, TagShort>>} :
        /\ PostRequest(U1, texts[1], texts[2], FALSE, tags)
        /\ WritesDone' <= MaxWrites
WriteComment ==
    \E user \in {U2, NoUser}, post_id \in {1, NewPostId(1)}, content \in PostTexts :
        /\ CommentRequest(user, post_id, content)
        /\ WritesDone' <= MaxWrites
WriteReply ==
    \E comment_id \in {1, NewCommentId(1)}, content \in PostTexts \cup {LongReply} :
        /\ ReplyRequest(U1, 1, comment_id, content)
        /\ WritesDone' <= MaxWrites
WriteMessage ==
    \E input \in {"hi", "bad"} :
        /\ SendRequest(U1, U2, input)
        /\ WritesDone' <= MaxWrites
WriteOffer ==
    \E user \in {U1, NoUser},
       texts \in {<<OkText, OkText, OkText>>, <<OkText, BadText, Blank>>,
                  <<OkText, OkText, BadText>>, <<Blank, OkText, OkText>>} :
        /\ OfferRequest(user, texts[1], texts[2], texts[3])
        /\ WritesDone' <= MaxWrites
NextWrite == WritePost \/ WriteComment \/ WriteReply \/ WriteMessage \/ WriteOffer
SpecWrite == Init /\ [][NextWrite]_vars

(***************************************************************************)
(* SpecOffer: U1, who starts unverified and without an achievement record, *)
(* shares offers, gets verified at some point and votes for companies,     *)
(* while U2 likes a post and writes to U1.                                 *)
(***************************************************************************)
MaxSubmits == 5
GoogleUpper == <<71, 79, 79, 71, 76, 69>>
OfferSubmit ==
    \E user \in {U1, NoUser},
       texts \in {<<GoogleUpper, OkText, Blank>>, <<OkText, BadText, OkText>>} :
        /\ next_offer < MaxSubmits
        /\ OfferRequest(user, texts[1], texts[2], texts[3])
OfferVerify ==
    \E user \in {U1, NoUser}, student_number \in {Hi, Blank} :
        /\ ~users_db[U1].verified
        /\ VerificationRequest(user, OkText, student_number)
OfferVote ==
    \E company_id \in {"google", UnknownCompany} :
        /\ VoteCompanyRequest(U1, company_id)
        /\ UNCHANGED hist_calls
OfferLike == LikeRequest(U2, 1)
OfferMessage ==
    /\ next_message < 1
    /\ SendRequest(U2, U1, "hi")
NextOffer == OfferSubmit \/ OfferVerify \/ OfferVote \/ OfferLike \/ OfferMessage
SpecOffer == Init /\ [][NextOffer]_vars

(***************************************************************************)
(* SpecRead: the two users write to each other, to themselves and to an id *)
(* nobody registered, open their conversations, list them and ask for      *)
(* their unread count.                                                     *)
(***************************************************************************)
ReadSend ==
    \E user \in Users, other \in Receivers :
        /\ next_message < MaxMessages
        /\ SendRequest(user, other, "hi")
ReadFetch ==
    \E user \in Callers, other \in Receivers : GetMessagesRequest(user, other)
ReadCount ==
    \E user \in Callers : UnreadCountRequest(user)
ReadList ==
    \E user \in Callers : ConversationsRequest(user)
NextRead == ReadSend \/ ReadFetch \/ ReadCount \/ ReadList
SpecRead == Init /\ [][NextRead]_vars

(***************************************************************************)
(* SpecNotify: the notification cap.  The run starts from the state the    *)
(* program is in after U1 has sent NotifStart messages to U2, so that U2   *)
(* holds as many notifications; then the users write to each other, U1     *)
(* comments on a seeded post, and some of the texts are refused.           *)
(***************************************************************************)
NotifStart == NotificationCap - 2
MaxNewNotifs == 4
SentMessage(id) ==
    [id |-> id, sender_id |-> U1, receiver_id |-> U2, content |-> Hi, read |-> FALSE]
MessageNotif(id) ==
    [id |-> id, type |-> "message",
     content |-> [text |-> "New message from Someone", preview |-> Hi],
     source_user |-> U1, post_id |-> 0, read |-> FALSE]
InitNotify ==
    /\ now = [day |-> 0, tick |-> 0]
    /\ InitPosts
    /\ InitVotes
    /\ private_messages =
          (get_conversation_id(U1, U2) :> [i \in 1..NotifStart |-> SentMessage(i)])
    /\ user_notifications =
          (U2 :> [i \in 1..NotifStart |-> MessageNotif(NotifStart + 1 - i)])
    /\ user_settings = EmptyDict
    /\ next_message = NotifStart
    /\ next_notification = NotifStart
    /\ InitExtra
    /\ resp = [success |-> TRUE, message |-> SentMessage(NotifStart)]
    /\ hist_likes = {}
    /\ hist_purged = [post_id |-> 0, users |-> {}]
    /\ hist_req = [op |-> "send", user |-> U1, target |-> U2, input |-> "hi"]
    /\ hist_votes = {}
    /\ hist_calls = NoCalls
NotifySend ==
    \E pair \in {<<U1, U2>>, <<U2, U1>>}, input \in {"hi", "bad"} :
        /\ next_notification < NotifStart + MaxNewNotifs
        /\ SendRequest(pair[1], pair[2], input)
NotifyComment ==
    /\ next_notification < NotifStart + MaxNewNotifs
    /\ CommentRequest(U1, 1, OkText)
NextNotify == NotifySend \/ NotifyComment
SpecNotify == InitNotify /\ [][NextNotify]_vars

(***************************************************************************)
(* SpecRace: the threads of the server each serve like requests of U1 for  *)
(* the seeded post 1, one statement at a time, in any interleaving.        *)
(***************************************************************************)
MaxRuns == 2
RacePost == CHOOSE id \in SeedIds : \A other \in SeedIds : id <= other
RaceRest ==
    UNCHANGED <<now, user_favorites, next_post, voteVars, msgVars, users_db,
                offer_showcase, custom_tags_history, next_comment, next_offer, histVars>>
RaceBegin == \E t \in Threads : threads[t].runs < MaxRuns /\ like_begin(t) /\ RaceRest
RaceTest == \E t \in Threads : like_test(t, U1, RacePost) /\ RaceRest
RaceRemove == \E t \in Threads : like_remove(t, U1, RacePost) /\ RaceRest
RaceDecrement == \E t \in Threads : like_decrement(t, U1, RacePost) /\ RaceRest
RaceForget == \E t \in Threads : like_forget(t, U1, RacePost) /\ RaceRest
RaceCheck == \E t \in Threads : like_check(t, U1, RacePost) /\ RaceRest
RaceIncrement == \E t \in Threads : like_increment(t, U1, RacePost) /\ RaceRest
RaceAppend == \E t \in Threads : like_append(t, U1, RacePost) /\ RaceRest
RaceRecord == \E t \in Threads : like_record(t, U1, RacePost) /\ RaceRest
NextRace ==
    \/ RaceBegin \/ RaceTest \/ RaceRemove \/ RaceDecrement \/ RaceForget
    \/ RaceCheck \/ RaceIncrement \/ RaceAppend \/ RaceRecord
SpecRace == Init /\ [][NextRace]_vars

(***************************************************************************)
(* Properties of posts and likes.                                          *)
(***************************************************************************)
NoDuplicates(s) == \A i, j \in 1..Len(s) : s[i] = s[j] => i = j
Posts == {experience_posts[i] : i \in 1..Len(experience_posts)}
PostById(post_id) == experience_posts[FindPost(post_id)]
\* the likes and votes a post had when it entered the list
InitialLikes(post_id) ==
    IF post_id \in SeedIds THEN SeedPosts[CHOOSE i \in 1..Len(SeedPosts) : SeedPosts[i].id = post_id].likes
    ELSE 0
InitialVotes(post_id) ==
    IF post_id \in SeedIds THEN SeedPosts[CHOOSE i \in 1..Len(SeedPosts) : SeedPosts[i].id = post_id].votes
    ELSE 0
RespHas(r, key, value) == key \in DOMAIN r /\ r[key] = value

\* C1 as stated: in every reachable state every post, seeded ones included,
\* has likes = |liked_by| and votes = |voted_by|, and no user id occurs twice
\* in liked_by or voted_by.
C1_CountsEqualSets ==
    \A p \in Posts :
        /\ p.likes = Len(p.liked_by)
        /\ p.votes = Len(p.voted_by)
        /\ NoDuplicates(p.liked_by)
        /\ NoDuplicates(p.voted_by)

\* C1 amended: every post has likes = its initial likes + |liked_by| and
\* votes = its initial votes + |voted_by|, the initial counts being 0 for a
\* created post and the seeded numbers for a seeded one; no user id occurs
\* twice in liked_by or voted_by.
C1_CountsTrackSets ==
    \A p \in Posts :
        /\ p.likes = InitialLikes(p.id) + Len(p.liked_by)
        /\ p.votes = InitialVotes(p.id) + Len(p.voted_by)
        /\ NoDuplicates(p.liked_by)
        /\ NoDuplicates(p.voted_by)

\* C1 witness: the created post is liked and voted for by both users while
\* the seeded post 2 is liked and voted for as well.
C1_Witness ==
    /\ FindPost(NewPostId(1)) /= 0
    /\ Len(PostById(NewPostId(1)).liked_by) = 2
    /\ Len(PostById(NewPostId(1)).voted_by) = 2
    /\ Len(PostById(2).liked_by) = 1
    /\ Len(PostById(2).voted_by) = 1

\* a like by this user on this post was made today and has not been undone
LikedTodayNotUndone(user, post_id) == <<user, post_id, now.day>> \in hist_likes

\* C2 as stated: a likePost call by a user who liked the same post earlier
\* the same day, with no unlike in between, is rejected as "already liked
\* today" and leaves likes and liked_by as they were.
C2_SecondLikeRejected ==
    [][\A r \in PostRequests :
          (api_like_post(r[1], r[2]) /\ FindPost(r[2]) /= 0
              /\ LikedTodayNotUndone(r[1], r[2]))
          => /\ RespHas(resp', "success", FALSE)
             /\ RespHas(resp', "message", AlreadyLikedMsg)
             /\ experience_posts' = experience_posts]_vars

\* C2 amended: such a second call is not rejected; it is handled as an
\* unlike: it succeeds with liked = false, removes the user from liked_by,
\* lowers likes by one and clears the like timestamp.
C2_SecondLikeIsUnlike ==
    [][\A r \in PostRequests :
          (api_like_post(r[1], r[2]) /\ FindPost(r[2]) /= 0
              /\ LikedTodayNotUndone(r[1], r[2]))
          => /\ RespHas(resp', "success", TRUE)
             /\ RespHas(resp', "liked", FALSE)
             /\ PostById(r[2])'.likes = PostById(r[2]).likes - 1
             /\ r[1] \notin Range(PostById(r[2])'.liked_by)
             /\ Len(PostById(r[2])'.liked_by) = Len(PostById(r[2]).liked_by) - 1
             /\ r[2] \notin DOMAIN user_likes'[r[1]]]_vars

\* C2 witness: on the first day a like has just been taken back, so the
\* like it undid was made the same day.
C2_Witness ==
    /\ now.day = 0
    /\ RespHas(resp, "liked", FALSE)
    /\ \E p \in Posts : p.id = NewPostId(1) /\ p.liked_by = <<U2>>

(***************************************************************************)
(* Properties of the daily like limit (SpecCap).                           *)
(***************************************************************************)
\* likes the user made on that day and has not undone
LikesOnDay(user, day) == Cardinality({h \in hist_likes : h[1] = user /\ h[3] = day})
\* a likePost call made now would be accepted as a like
LikeWouldSucceed(user, post_id) ==
    /\ FindPost(post_id) /= 0
    /\ user \notin Range(PostById(post_id).liked_by)
    /\ can_like_post(user, post_id).ok

\* C3: with 50 likes made today on distinct posts and none undone, a like
\* of a further post is refused with "daily limit reached" and changes
\* neither the posts nor the like records; when those 50 likes date from
\* the day before and none was made today, the like is accepted.
C3_DailyLimit ==
    [][\A post_id \in CapLikeIds :
          (api_like_post(U1, post_id) /\ FindPost(post_id) /= 0
              /\ U1 \notin Range(PostById(post_id).liked_by))
          => /\ LikesOnDay(U1, now.day) = DailyLikeLimit
                => /\ RespHas(resp', "success", FALSE)
                   /\ RespHas(resp', "message", DailyLimitMsg)
                   /\ UNCHANGED <<experience_posts, user_likes>>
             /\ (LikesOnDay(U1, now.day - 1) = DailyLikeLimit /\ LikesOnDay(U1, now.day) = 0)
                => /\ RespHas(resp', "success", TRUE)
                   /\ RespHas(resp', "liked", TRUE)
                   /\ U1 \in Range(PostById(post_id)'.liked_by)]_vars

\* C3 witness: U1 made 50 likes on day 0, and on day 1 a like by U1 has
\* just been accepted.
C3_Witness ==
    /\ now.day = 1
    /\ LikesOnDay(U1, 0) = DailyLikeLimit
    /\ LikesOnDay(U1, 1) = 1
    /\ RespHas(resp, "liked", TRUE)

\* what an unlike does to the post and to the like record
UnlikeEffect(user, post_id) ==
    /\ RespHas(resp', "success", TRUE)
    /\ RespHas(resp', "liked", FALSE)
    /\ user \notin Range(PostById(post_id)'.liked_by)
    /\ PostById(post_id)'.likes = PostById(post_id).likes - 1
    /\ post_id \notin DOMAIN user_likes'[user]

\* C4 as stated: a likePost call by a user who is in liked_by is an unlike
\* whatever the rate-limit state, and a likePost call by that user on that
\* post right after it, on the same day, is accepted.
C4_UnlikeThenLikeAccepted ==
    [][\A post_id \in CapLikeIds :
          (api_like_post(U1, post_id) /\ FindPost(post_id) /= 0
              /\ U1 \in Range(PostById(post_id).liked_by))
          => /\ UnlikeEffect(U1, post_id)
             /\ LikeWouldSucceed(U1, post_id)']_vars

\* C4 amended: a likePost call by a user who is in liked_by is an unlike
\* whatever the rate-limit state; a likePost call by that user on that post
\* right after it, on the same day, is accepted exactly when the user then
\* has fewer than 50 likes made that day (it is refused when the like that
\* was undone dated from an earlier day and 50 likes were made today).
C4_UnlikeAlways ==
    [][\A post_id \in CapLikeIds :
          (api_like_post(U1, post_id) /\ FindPost(post_id) /= 0
              /\ U1 \in Range(PostById(post_id).liked_by))
          => /\ UnlikeEffect(U1, post_id)
             /\ LikeWouldSucceed(U1, post_id)' <=> (LikesOnDay(U1, now.day)' < DailyLikeLimit)]_vars

\* C4 witness: an unlike has just been served although U1 has 50 likes made
\* today.
C4_Witness ==
    /\ RespHas(resp, "liked", FALSE)
    /\ LikesOnDay(U1, now.day) = DailyLikeLimit

(***************************************************************************)
(* Properties of favorites and deletion (SpecFav).                         *)
(***************************************************************************)
InFavorites(post_id) ==
    {u \in DOMAIN user_favorites : post_id \in Range(user_favorites[u])}

\* C10: a deletePost call by the post's author succeeds, and right after it
\* the post is not in the post list and no user's favorites contain it,
\* whatever favorites were toggled before.
C10_DeletePurgesFavorites ==
    [][\A user \in Users, post_id \in FavIds :
          (api_delete_post(user, post_id) /\ FindPost(post_id) /= 0
              /\ PostById(post_id).author_id = user)
          => /\ RespHas(resp', "success", TRUE)
             /\ FindPost(post_id)' = 0
             /\ InFavorites(post_id)' = {}]_vars

\* C10 witness: the created post has just been deleted while both users
\* had it among their favorites, and it is in no favorites now.
C10_Witness ==
    /\ RespHas(resp, "message", "Post deleted successfully")
    /\ hist_purged = [post_id |-> NewPostId(1), users |-> Users]
    /\ FindPost(NewPostId(1)) = 0
    /\ InFavorites(NewPostId(1)) = {}

(***************************************************************************)
(* Properties of company votes (SpecVote).                                 *)
(***************************************************************************)
\* a vote by this user for this company was accepted today
VotedToday(user, company_id) == <<user, company_id, now.day>> \in hist_votes
CompanyVotes(company_id) == dream_companies[FindCompany(company_id)].votes

\* C5: a company vote by a user whose vote for that company was accepted
\* earlier the same day is rejected and changes neither the vote totals,
\* the vote records nor the achievements; a vote for an existing company
\* the user has not voted for today is accepted and counted, however many
\* other companies the user voted for today and whether or not the user
\* voted for this company on an earlier day.
C5_OneVotePerCompanyPerDay ==
    [][\A r \in CompanyRequests :
          (api_vote_company(r[1], r[2]) /\ r[1] /= NoUser)
          => IF VotedToday(r[1], r[2])
             THEN /\ RespHas(resp', "success", FALSE)
                  /\ RespHas(resp', "message", AlreadyVotedMsg)
                  /\ UNCHANGED <<dream_companies, company_votes, user_achievements>>
             ELSE FindCompany(r[2]) /= 0
                  => /\ RespHas(resp', "success", TRUE)
                     /\ CompanyVotes(r[2])' = CompanyVotes(r[2]) + 1
                     /\ company_votes'[r[2]][r[1]] = isoformat(now)]_vars

\* C5 witness: on the second day U1 has voted for three companies, one of
\* which U1 had voted for the day before as well, and a further vote by U1
\* for that company has just been rejected.
C5_Witness ==
    /\ now.day = 1
    /\ {<<U1, "google", 0>>, <<U1, "google", 1>>, <<U1, "goldman", 1>>,
         <<U1, "mckinsey", 1>>} \subseteq hist_votes
    /\ hist_req = [op |-> "vote_company", user |-> U1, target |-> "google"]
    /\ RespHas(resp, "already_voted", TRUE)

(***************************************************************************)
(* Properties of conversations (SpecMsg).                                  *)
(***************************************************************************)
ConversationUsers == Users \cup {Stranger, SystemId, AnonymousId}
StoredMessages ==
    {private_messages[c][i] : <<c, i>> \in
        {ci \in (DOMAIN private_messages) \X (1..MaxMessages + 1) :
            ci[2] <= Len(private_messages[ci[1]])}}
\* the key of the list that holds message m
ListOf(m) ==
    CHOOSE c \in DOMAIN private_messages : m \in Range(private_messages[c])

\* C6: get_conversation_id gives the same id for (a, b) and (b, a), and
\* every stored message is in the list whose key is that id for its sender
\* and receiver in either order.
C6_ConversationIdSymmetric ==
    /\ \A a, b \in ConversationUsers : get_conversation_id(a, b) = get_conversation_id(b, a)
    /\ \A m \in StoredMessages :
          /\ ListOf(m) = get_conversation_id(m.sender_id, m.receiver_id)
          /\ ListOf(m) = get_conversation_id(m.receiver_id, m.sender_id)

\* C6 witness: U1 wrote to U2 and U2 wrote to U1, and both messages are in
\* one list.
C6_Witness ==
    \E c \in DOMAIN private_messages :
        /\ Len(private_messages[c]) = 2
        /\ private_messages[c][1].sender_id = U1 /\ private_messages[c][1].receiver_id = U2
        /\ private_messages[c][2].sender_id = U2 /\ private_messages[c][2].receiver_id = U1

(***************************************************************************)
(* Properties of the message length limit (SpecLen).                       *)
(***************************************************************************)
\* the last request was a message from a logged-in user to a receiver who
\* accepts messages
LastSendReached ==
    /\ hist_req.op = "send"
    /\ hist_req.user /= NoUser
    /\ accepts_messages(hist_req.target)
LastConversation ==
    private_messages[get_conversation_id(hist_req.user, hist_req.target)]

\* C7: a message to a receiver who accepts messages is refused as too long
\* when the text, with surrounding white space removed, has 1001
\* characters or more, and is accepted and stored when that text has
\* exactly 1000 characters and passes moderation; the stored content is
\* the text with the white space removed.
C7_LengthLimit ==
    LastSendReached =>
        LET content == strip(MsgText(hist_req.input))
        IN  /\ Len(content) >= MaxMessageLen + 1
                => ~resp.success /\ resp.message = TooLongMsg
            /\ (Len(content) = MaxMessageLen /\ check_content_moderation(content).ok)
                => /\ resp.success
                   /\ resp.message.content = content
                   /\ LastConversation[Len(LastConversation)] = resp.message

\* C7 witness: a text of 1000 characters sent with white space around it
\* has just been stored.
C7_Witness ==
    /\ LastSendReached
    /\ hist_req.input = "padded_exact"
    /\ resp.success
    /\ Len(resp.message.content) = MaxMessageLen
    /\ Len(MsgText(hist_req.input)) > MaxMessageLen

(***************************************************************************)
(* Properties of achievements (SpecAward, SpecTenDays).                    *)
(***************************************************************************)
Badges(user) == Range(user_achievements[user].badges)

\* C8: U1 had no achievement record; after exactly 10 award calls of type
\* vote U1's badges contain first_vote and voter_10 and not voter_50, and
\* after exactly 50 they contain first_vote, voter_10 and voter_50.
C8_VoteBadges ==
    /\ hist_calls[U1].calls = 10
        => /\ {"first_vote", "voter_10"} \subseteq Badges(U1)
           /\ "voter_50" \notin Badges(U1)
    /\ hist_calls[U1].calls = 50
        => {"first_vote", "voter_10", "voter_50"} \subseteq Badges(U1)

\* C8 witness: the 50th vote award has been made and voter_50 is held.
C8_Witness ==
    /\ hist_calls[U1].calls = 50
    /\ "voter_50" \in Badges(U1)
    /\ user_achievements[U1].votes_cast = 50

\* C9: once U1, who had no achievement record, has voted for 10 distinct
\* companies on 10 distinct days, all 10 votes were accepted, votes_cast is
\* 10, the badges include voter_10 and the points are 10 * 5 + 10 + 50.
C9_TenVotesTenDays ==
    hist_calls[U1].calls = NumCompanies
        => /\ hist_calls[U1].accepted = NumCompanies
           /\ user_achievements[U1].votes_cast = 10
           /\ "voter_10" \in Badges(U1)
           /\ user_achievements[U1].points
                = 10 * VotePoints + ACHIEVEMENT_BADGES.first_vote + ACHIEVEMENT_BADGES.voter_10
           /\ user_achievements[U1].points = 110

\* C9 witness: 10 votes by U1 have been accepted, for 10 companies on 10
\* days.
C9_Witness ==
    /\ hist_calls[U1].calls = NumCompanies
    /\ Cardinality({h[2] : h \in hist_votes}) = 10
    /\ Cardinality({h[3] : h \in hist_votes}) = 10
    /\ \A h \in hist_votes : h[1] = U1

(***************************************************************************)
(* Properties of refused deletions (SpecFav).                              *)
(***************************************************************************)
\* C11: a deletePost call for a post that does not exist, or by a caller
\* who is not the post's author, fails with a message and leaves the post
\* list and all favorites as they were; deletions of a seeded post and of
\* a post created without a login are among them, whoever asks.
C11_RefusedDeleteChangesNothing ==
    [][\A user \in Callers, post_id \in FavIds :
          (api_delete_post(user, post_id)
              /\ (FindPost(post_id) = 0 \/ PostById(post_id).author_id /= user
                    \/ PostById(post_id).author_id \in {SystemId, AnonymousId}))
          => /\ RespHas(resp', "success", FALSE)
             /\ "message" \in DOMAIN resp'
             /\ FindPost(post_id) = 0 => resp'.message \in {"Post not found", "Please login first"}
             /\ UNCHANGED <<experience_posts, user_favorites>>]_vars

\* C11 witness: a post created without a login is still in the list, in
\* both users' favorites, after a logged-in user was refused its deletion.
C11_Witness ==
    /\ RespHas(resp, "message", "You can only delete your own posts")
    /\ FindPost(NewPostId(1)) /= 0
    /\ PostById(NewPostId(1)).author_id = AnonymousId
    /\ InFavorites(NewPostId(1)) = Users

(***************************************************************************)
(* Properties of moderation (SpecMod).                                     *)
(***************************************************************************)
\* word occurs in text as a run of consecutive characters
IsSubstring(word, text) ==
    \E a \in 0..(Len(text) - Len(word)) :
        \A k \in 1..Len(word) : text[a + k] = word[k]
\* positions in the list of the words that occur in text
WordsIn(text) ==
    {i \in 1..Len(PROHIBITED_WORDS) : IsSubstring(PROHIBITED_WORDS[i], text)}
ProgramState == <<now, postVars, voteVars, msgVars, extraVars>>
\* the answer held in resp is the right one for the text last moderated
ModerationAnswer ==
        LET text == hist_req.input
        IN  /\ resp.success <=> WordsIn(text) = {}
            /\ ~resp.success =>
                  /\ WordsIn(text) /= {}
                  /\ \E i \in WordsIn(text) :
                        /\ resp.word = PROHIBITED_WORDS[i]
                        /\ \A j \in WordsIn(text) : i <= j
            /\ text = BadText => ~resp.success /\ resp.word = <<20195, 20889>>
            /\ text = OkText => resp.success

\* C12: check_content_moderation rejects a text exactly when a word of
\* the list occurs in it, and then names the word that comes first in the
\* list among those that occur, wherever in the text the words stand; it
\* rejects the scenario's text naming the fifth word of the list and
\* accepts the scenario's clean text; the call changes nothing the program
\* stores.
C12_FirstWordInListOrder ==
    [][hist_req'.op = "moderate" => (ModerationAnswer' /\ UNCHANGED ProgramState)]_vars

\* C12 witness: a text in which the fifth word of the list stands before
\* the first word has been rejected naming the first word.
C12_Witness ==
    /\ hist_req.op = "moderate"
    /\ hist_req.input = <<20195, 20889, 24191, 21578>>
    /\ ~resp.success
    /\ resp.word = <<24191, 21578>>

\* the texts the last request submitted
SubmittedTexts ==
    IF hist_req.op = "send" THEN <<MsgText(hist_req.input)>>
    ELSE IF hist_req.op \in {"post", "comment", "reply", "offer"} THEN hist_req.texts
    ELSE <<>>
\* what a write of text can touch
WrittenState ==
    <<experience_posts, private_messages, offer_showcase, user_notifications,
      custom_tags_history, user_achievements>>
\* C13: a post, comment, reply, private message or offer whose text holds a
\* prohibited word is refused and writes nothing: the posts with their
\* comments and replies, the conversations, the offers, the notifications,
\* the custom-tag history and the achievements are all as before.
C13_RejectedWriteAborted ==
    [][(\E k \in 1..Len(SubmittedTexts') : WordsIn(SubmittedTexts'[k]) /= {})
          => /\ RespHas(resp', "success", FALSE)
             /\ UNCHANGED WrittenState]_vars
\* a reply with a prohibited word was refused, naming the word, after a
\* comment had been written
C13_Witness ==
    /\ hist_req.op = "reply"
    /\ hist_req.texts = <<BadText>>
    /\ RespHas(resp, "message", "Reply rejected")
    /\ RespHas(resp, "word", <<20195, 20889>>)
    /\ next_comment = 1

\* C14: whatever is requested (company votes accepted or refused, offers,
\* likes, messages, verification), every user with an achievement record
\* keeps it, with no fewer points and with every badge held before.
C14_PointsAndBadgesOnlyGrow ==
    [][\A u \in DOMAIN user_achievements :
          /\ u \in DOMAIN user_achievements'
          /\ user_achievements'[u].points >= user_achievements[u].points
          /\ Range(user_achievements[u].badges) \subseteq Range(user_achievements'[u].badges)]_vars
\* U1 holds three badges and 415 points after two offers, verification, a
\* third offer and a company vote, and a second vote was refused
C14_Witness ==
    /\ U1 \in DOMAIN user_achievements
    /\ Badges(U1) = {"offer_shared", "first_vote", "verified_offer"}
    /\ user_achievements[U1].points = 415
    /\ hist_req.op = "vote_company"
    /\ RespHas(resp, "success", FALSE)

\* C20: once a company vote or an offer submission is complete, the user
\* who made it holds top_contributor if their points, every bonus of that
\* request counted, have reached 500.
C20_ThresholdGivesTopContributor ==
    (hist_req.op \in {"offer", "vote_company"} /\ hist_req.user \in DOMAIN user_achievements)
        => (user_achievements[hist_req.user].points >= TopContributorPoints
                => "top_contributor" \in Badges(hist_req.user))

\* the receiver has stored receive_messages = false
ReceivingOff(other_user_id) ==
    /\ other_user_id \in DOMAIN user_settings
    /\ "receive_messages" \in DOMAIN user_settings[other_user_id]
    /\ ~user_settings[other_user_id].receive_messages
\* no setting of receive_messages is stored for the receiver
NothingStored(other_user_id) ==
    \/ other_user_id \notin DOMAIN user_settings
    \/ "receive_messages" \notin DOMAIN user_settings[other_user_id]
\* C15: a logged-in user's message is refused, with a reason, when the
\* receiver has switched receiving off, when the text is empty once the
\* white space around it is removed, or when that text has more than 1000
\* characters; a refused message is not stored and raises no
\* notification; a receiver for whom no setting is stored receives a
\* message that is neither empty, too long nor prohibited.
C15_RefusedSendStoresNothing ==
    [][\A other \in Receivers, input \in ShortInputs \cup LongInputs :
          (/\ hist_req'.op = "send"
           /\ hist_req'.user /= NoUser
           /\ hist_req'.target = other
           /\ hist_req'.input = input) =>
              LET content == strip(MsgText(input))
                  sendable == /\ content /= <<>>
                              /\ Len(content) <= MaxMessageLen
                              /\ WordsIn(content) = {}
              IN  /\ (ReceivingOff(other) \/ content = <<>> \/ Len(content) > MaxMessageLen)
                        => /\ RespHas(resp', "success", FALSE)
                           /\ "message" \in DOMAIN resp'
                  /\ RespHas(resp', "success", FALSE)
                        => UNCHANGED <<private_messages, user_notifications>>
                  /\ (NothingStored(other) /\ sendable)
                        => /\ RespHas(resp', "success", TRUE)
                           /\ private_messages' /= private_messages]_vars
\* a second message to U2 was refused because U2 had switched receiving
\* off after the first
C15_Witness ==
    /\ hist_req.op = "send"
    /\ hist_req.user = U1
    /\ ReceivingOff(U2)
    /\ RespHas(resp, "message", "This user has disabled private messages")
    /\ next_message = 1

\* the places <<conversation, position>> of the stored messages
MessagePlaces(messages) ==
    UNION {{<<c, k>> : k \in 1..Len(messages[c])} : c \in DOMAIN messages}
\* the message was sent by v to u
SentTo(msg, v, u) == msg.sender_id = v /\ msg.receiver_id = u
\* C16: when u opens the conversation with v, every message v sent to u
\* becomes read and every other stored message is left as it was; no
\* step of any request removes a message or turns a read message unread;
\* and right after the fetch the unread count of u is the number of
\* unread messages u received from others than v.
C16_FetchMarksRead ==
    [][/\ \A p \in MessagePlaces(private_messages) :
            /\ p \in MessagePlaces(private_messages')
            /\ private_messages[p[1]][p[2]].read => private_messages'[p[1]][p[2]].read
       /\ (hist_req'.op = "fetch" /\ hist_req'.user /= NoUser) =>
            /\ MessagePlaces(private_messages') = MessagePlaces(private_messages)
            /\ \A p \in MessagePlaces(private_messages) :
                  LET msg == private_messages[p[1]][p[2]]
                  IN  private_messages'[p[1]][p[2]] =
                        IF SentTo(msg, hist_req'.target, hist_req'.user)
                        THEN [msg EXCEPT !.read = TRUE]
                        ELSE msg
            /\ unread_count(private_messages', hist_req'.user) =
                  Cardinality({p \in MessagePlaces(private_messages') :
                      LET msg == private_messages'[p[1]][p[2]]
                      IN  /\ msg.receiver_id = hist_req'.user
                          /\ msg.sender_id /= hist_req'.target
                          /\ ~msg.read})]_vars
\* U2 has opened the conversation with U1, which holds a message of each
\* to the other: the one U2 received is read, the one U2 sent is not
C16_Witness ==
    /\ hist_req.op = "fetch"
    /\ hist_req.user = U2
    /\ hist_req.target = U1
    /\ \E c \in DOMAIN private_messages :
          /\ Len(private_messages[c]) = 2
          /\ \E k \in 1..2 : SentTo(private_messages[c][k], U1, U2) /\ private_messages[c][k].read
          /\ \E k \in 1..2 : SentTo(private_messages[c][k], U2, U1) /\ ~private_messages[c][k].read

\* the ids of a list of notifications, in list order
NotifIds(list) == [k \in 1..Len(list) |-> list[k].id]
\* C17: every recipient's notification list holds at most 100 entries,
\* newest first; a step that creates a notification puts it at the head
\* of a list; a step leaves a list as it was or puts one new notification
\* at its head, in front of the entries it held, of which the last one
\* alone is dropped when the list already held 100.
C17_NotificationCap ==
    [][/\ next_notification' /= next_notification
            => \E r \in DOMAIN user_notifications' :
                  user_notifications'[r][1].id = next_notification'
       /\ \A r \in DOMAIN user_notifications' :
            LET old == DictGet(user_notifications, r, <<>>)
                new == user_notifications'[r]
            IN  /\ Len(new) <= NotificationCap
                /\ \A k \in 1..(Len(new) - 1) : new[k].id > new[k + 1].id
                /\ \/ new = old
                   \/ /\ new[1].id = next_notification'
                      /\ next_notification' = next_notification + 1
                      /\ Tail(new) = IF Len(old) = NotificationCap
                                     THEN SubSeq(old, 1, NotificationCap - 1)
                                     ELSE old]_vars
\* U2 holds 100 notifications after 101 messages from U1: the newest is
\* at the head and the very first one is gone
C17_Witness ==
    /\ Len(user_notifications[U2]) = NotificationCap
    /\ user_notifications[U2][1].id = NotificationCap + 1
    /\ user_notifications[U2][NotificationCap].id = 2
    /\ next_notification = NotificationCap + 1

\* C18: a vote of a logged-in user u for post p is accepted exactly when p
\* exists, is a dream-job post and does not have u in voted_by; an
\* accepted vote adds u to voted_by and one to votes and changes no other
\* post; a refused vote changes no post; and no step on any day takes a
\* voter out of voted_by of a post that stays, so that a repeated vote
\* is refused on the same day and on every later day.
C18_OneVotePerUser ==
    [][/\ \A r \in PostRequests :
            api_vote_post(r[1], r[2]) =>
                LET i == FindPost(r[2])
                IN  IF i /= 0 /\ experience_posts[i].is_dream_job
                         /\ r[1] \notin Range(experience_posts[i].voted_by)
                    THEN /\ RespHas(resp', "success", TRUE)
                         /\ experience_posts' =
                              [experience_posts EXCEPT
                                 ![i].votes = @ + 1,
                                 ![i].voted_by = Append(@, r[1])]
                    ELSE /\ RespHas(resp', "success", FALSE)
                         /\ UNCHANGED experience_posts
       /\ \A i \in 1..Len(experience_posts), j \in 1..Len(experience_posts') :
            experience_posts[i].id = experience_posts'[j].id
                => Range(experience_posts[i].voted_by)
                      \subseteq Range(experience_posts'[j].voted_by)]_vars
\* on day 1 U1 has just been refused a second vote for the seeded
\* dream-job post 2, which counts the vote U1 cast before
C18_Witness ==
    /\ now.day = 1
    /\ RespHas(resp, "message", "You already voted for this post")
    /\ FindPost(2) /= 0
    /\ PostById(2).voted_by = <<U1>>
    /\ PostById(2).votes = InitialVotes(2) + 1

\* the ids of the posts that were created and are no longer in the list
DeletedIds == {NewPostId(n) : n \in 1..next_post} \ {post.id : post \in Posts}
\* C19: however toggleFavorite and deletePost calls are interleaved, no
\* user's favorites contain the id of a deleted post.
C19_NoDeletedPostInFavorites ==
    \A post_id \in DeletedIds : InFavorites(post_id) = {}

(***************************************************************************)
(* Properties of offers and badges (SpecOffer, SpecBadge).                 *)
(***************************************************************************)
\* the user's record, an empty one when none is stored
RecordOf(achievements, user) == DictGet(achievements, user, Achievement(<<>>, 0, 0, 0))
\* how many times the badge occurs in the list
CountOf(badges, badge) == Cardinality({k \in 1..Len(badges) : badges[k] = badge})
\* C21: an accepted offer of a user who is verified and does not hold
\* verified_offer adds the badge and 150 points on top of the 50 base
\* points and of the 100 of offer_shared when that badge comes with it; an
\* accepted offer of a user who is not verified, or who holds the badge,
\* adds only the base points and the offer_shared bonus and leaves
\* verified_offer as it was; nobody unverified ever holds the badge.
C21_VerifiedOfferBonus ==
    [][\A user \in Users :
          (next_offer' = next_offer + 1 /\ hist_req'.user = user) =>
              LET old == RecordOf(user_achievements, user)
                  new == RecordOf(user_achievements', user)
                  base == OfferPoints + (IF "offer_shared" \in Range(old.badges) THEN 0
                                         ELSE ACHIEVEMENT_BADGES.offer_shared)
              IN  /\ IF users_db[user].verified /\ "verified_offer" \notin Range(old.badges)
                     THEN /\ CountOf(new.badges, "verified_offer") = 1
                          /\ new.points = old.points + base + 150
                     ELSE /\ CountOf(new.badges, "verified_offer")
                                = CountOf(old.badges, "verified_offer")
                          /\ new.points = old.points + base
                  /\ ~users_db'[user].verified => "verified_offer" \notin Range(new.badges)]_vars
\* U1, verified after a first offer, has shared a second one and a third:
\* 150 + 50 + 150 + 50 points and one verified_offer badge
C21_Witness ==
    /\ hist_req.op = "offer"
    /\ RespHas(resp, "success", TRUE)
    /\ users_db[U1].verified
    /\ U1 \in DOMAIN user_achievements
    /\ user_achievements[U1].badges = <<"offer_shared", "verified_offer">>
    /\ user_achievements[U1].points = 400
    /\ user_achievements[U1].offers_shared = 3

\* the bonuses of a set of badges, added up
RECURSIVE BonusSum(_)
BonusSum(badges) ==
    IF badges = {} THEN 0
    ELSE LET b == CHOOSE x \in badges : TRUE
         IN  ACHIEVEMENT_BADGES[b] + BonusSum(badges \ {b})
\* C22: no user's badge list ever holds a badge twice, and a step changes
\* a user's points by the points of the request it serves (5 for an
\* accepted company vote, 50 for an accepted offer, nothing otherwise)
\* plus the bonuses of the badges that step adds, so that each bonus is
\* added once, with its badge.
C22_BadgeOnceBonusOnce ==
    [][\A user \in DOMAIN user_achievements' :
          LET old == RecordOf(user_achievements, user)
              new == user_achievements'[user]
              earned == (new.votes_cast - old.votes_cast) * VotePoints
                        + (new.offers_shared - old.offers_shared) * OfferPoints
          IN  /\ \A k, l \in 1..Len(new.badges) : new.badges[k] = new.badges[l] => k = l
              /\ new.points - old.points
                    = earned + BonusSum(Range(new.badges) \ Range(old.badges))]_vars
\* U1 holds four badges, none twice, top_contributor among them
C22_Witness ==
    /\ U1 \in DOMAIN user_achievements
    /\ Len(user_achievements[U1].badges) = 4
    /\ Cardinality(Badges(U1)) = 4
    /\ "top_contributor" \in Badges(U1)

\* C23: no stored notification has its recipient as its source user,
\* whether it comes from a comment, a reply or a private message, a
\* message addressed to the sender's own id included.
C23_NoSelfNotification ==
    \A r \in DOMAIN user_notifications :
        \A k \in 1..Len(user_notifications[r]) : user_notifications[r][k].source_user /= r

\* the message but for its read flag
Unmarked(msg) == [msg EXCEPT !.read = FALSE]
\* C24: no step removes a message, reorders a conversation or changes the
\* id, the content, the sender or the receiver of a stored message; an
\* accepted sendMessage(s, r) adds one message, unread, from s to r, at
\* the end of one conversation, which holds only messages between s and
\* r, and leaves every other conversation as it was; it puts one
\* notification of type message, with source s, at the head of r's list
\* and leaves the other lists as they were.
C24_SendAppendsOne ==
    [][/\ \A c \in DOMAIN private_messages :
            /\ c \in DOMAIN private_messages'
            /\ Len(private_messages'[c]) >= Len(private_messages[c])
            /\ \A k \in 1..Len(private_messages[c]) :
                  Unmarked(private_messages'[c][k]) = Unmarked(private_messages[c][k])
       /\ next_message' = next_message + 1 =>
            LET s == hist_req'.user
                r == hist_req'.target
                grown == {c \in DOMAIN private_messages' :
                            private_messages'[c] /= DictGet(private_messages, c, <<>>)}
            IN  /\ Cardinality(grown) = 1
                /\ \A c \in grown :
                      LET old == DictGet(private_messages, c, <<>>)
                          new == private_messages'[c]
                      IN  /\ Len(new) = Len(old) + 1
                          /\ SubSeq(new, 1, Len(old)) = old
                          /\ SentTo(new[Len(new)], s, r)
                          /\ ~new[Len(new)].read
                          /\ new[Len(new)].id = next_message'
                          /\ \A k \in 1..Len(new) :
                                SentTo(new[k], s, r) \/ SentTo(new[k], r, s)
                /\ r \in DOMAIN user_notifications'
                /\ LET old == DictGet(user_notifications, r, <<>>)
                       new == user_notifications'[r]
                   IN  /\ new[1].type = "message"
                       /\ new[1].source_user = s
                       /\ new[1].id = next_notification'
                       /\ Tail(new) = Prefix(old, NotificationCap - 1)
                /\ \A u \in DOMAIN user_notifications' \ {r} :
                      u \in DOMAIN user_notifications
                          /\ user_notifications'[u] = user_notifications[u]]_vars
\* U2's message has just been added behind U1's in their conversation,
\* which U2 had opened before: U1's message is read, U2's is not, and U1
\* holds one notification
C24_Witness ==
    /\ hist_req.op = "send"
    /\ hist_req.user = U2
    /\ hist_req.target = U1
    /\ get_conversation_id(U1, U2) \in DOMAIN private_messages
    /\ LET conv == private_messages[get_conversation_id(U1, U2)]
       IN  /\ Len(conv) = 2
           /\ SentTo(conv[1], U1, U2) /\ conv[1].read
           /\ SentTo(conv[2], U2, U1) /\ ~conv[2].read
    /\ U1 \in DOMAIN user_notifications
    /\ Len(user_notifications[U1]) = 1

\* C25: while like requests of one user for one post run concurrently,
\* interleaved statement by statement, the user is in liked_by of the
\* post at most once, and in every state a reader can see, between any
\* two statements, likes stands above its seeded value by the length of
\* liked_by.
C25_ConcurrentLikesConsistent ==
    LET post == PostById(RacePost)
    IN  /\ CountOf(post.liked_by, U1) <= 1
        /\ post.likes - InitialLikes(RacePost) = Len(post.liked_by)

\* a like timestamp is stored for the user and the post
HasTimestamp(user, post_id) ==
    user \in DOMAIN user_likes /\ post_id \in DOMAIN user_likes[user]
\* C26: with requests served one after the other, for every post in the
\* list and every user a like timestamp is stored for the pair exactly
\* when the user is in liked_by of the post, and no request is answered
\* with the "already liked today" reason.
C26_TimestampIffLiked ==
    /\ \A post \in Posts, user \in Users :
          HasTimestamp(user, post.id) <=> is_liked_by(post, user)
    /\ ~RespHas(resp, "message", AlreadyLikedMsg)
\* U1 has just unliked the created post and still likes post 2: one
\* timestamp is stored, for post 2
C26_Witness ==
    /\ RespHas(resp, "liked", FALSE)
    /\ FindPost(NewPostId(1)) /= 0
    /\ U1 \in DOMAIN user_likes
    /\ DOMAIN user_likes[U1] = {2}
    /\ is_liked_by(PostById(2), U1)
    /\ ~is_liked_by(PostById(NewPostId(1)), U1)

\* C27: across every step, a post that stays in the list keeps the
\* differences likes - |liked_by| and votes - |voted_by|; likes is never
\* negative, and a step that takes a user out of liked_by lowers likes by
\* exactly one, so that the clamp at zero never decides the result.
C27_DifferencesKept ==
    [][\A i \in 1..Len(experience_posts), j \in 1..Len(experience_posts') :
          experience_posts[i].id = experience_posts'[j].id =>
              LET old == experience_posts[i]
                  new == experience_posts'[j]
              IN  /\ new.likes - Len(new.liked_by) = old.likes - Len(old.liked_by)
                  /\ new.votes - Len(new.voted_by) = old.votes - Len(old.voted_by)
                  /\ new.likes >= 0
                  /\ Len(new.liked_by) < Len(old.liked_by)
                        => old.likes >= 1 /\ new.likes = old.likes - 1]_vars
\* U1 has liked and unliked post 2 and voted for it: likes is back at its
\* seeded value, votes is one above
C27_Witness ==
    /\ RespHas(resp, "liked", FALSE)
    /\ PostById(2).liked_by = <<>>
    /\ PostById(2).likes = InitialLikes(2)
    /\ PostById(2).voted_by = <<U1>>
    /\ PostById(2).votes = InitialVotes(2) + 1
    /\ U1 \in DOMAIN user_likes
    /\ user_likes[U1] = EmptyDict

(***************************************************************************)
(* SpecLedger: U1, who starts unverified and without an achievement        *)
(* record, votes for the companies in list order, every company once a     *)
(* day, and the day ends when all have been voted for; U1 also repeats the *)
(* vote for the first company, votes for an unknown company, shares offers *)
(* and gets verified.                                                      *)
(***************************************************************************)
MaxLedgerDay == 4
MaxRejected == 1
LedgerDay ==
    /\ now.day < MaxLedgerDay
    /\ hist_calls[U1].accepted = NumCompanies * (now.day + 1)
    /\ now' = [day |-> now.day + 1, tick |-> 0]
    /\ UNCHANGED <<postVars, voteVars, msgVars, extraVars, resp, histVars>>
LedgerVote ==
    \E company_id \in {SeedCompanies[NextCompany(hist_calls[U1].accepted)].id,
                       SeedCompanies[1].id, UnknownCompany} :
        /\ VoteCompanyRequest(U1, company_id)
        /\ hist_calls' = CountCall(U1, resp'.success)
        /\ hist_calls'[U1].calls - hist_calls'[U1].accepted <= MaxRejected
LedgerOffer ==
    /\ next_offer < MaxOffers
    /\ OfferRequest(U1, GoogleUpper, OkText, Blank)
LedgerVerify ==
    /\ ~users_db[U1].verified
    /\ VerificationRequest(U1, OkText, Hi)
NextLedger == LedgerDay \/ LedgerVote \/ LedgerOffer \/ LedgerVerify
SpecLedger == Init /\ [][NextLedger]_vars

\* C28: a user whose achievement record was made by the first award (not
\* seeded) has, in every state, points equal to 5 for each vote cast plus
\* 50 for each offer shared plus the bonuses of the badges held; votes_cast
\* is the number of the user's accepted company votes; first_vote, voter_10
\* and voter_50 are held exactly from 1, 10 and 50 votes cast on.
C28_PointsLedger ==
    \A user \in DOMAIN user_achievements \ DOMAIN SeedAchievements :
        LET rec == user_achievements[user]
        IN  /\ rec.points = VotePoints * rec.votes_cast
                            + OfferPoints * rec.offers_shared
                            + BonusSum(Range(rec.badges))
            /\ user \in Users => rec.votes_cast = hist_calls[user].accepted
            /\ "first_vote" \in Range(rec.badges) <=> rec.votes_cast >= 1
            /\ "voter_10" \in Range(rec.badges) <=> rec.votes_cast >= 10
            /\ "voter_50" \in Range(rec.badges) <=> rec.votes_cast >= 50
\* U1 has cast 50 accepted votes and shared two offers, the second one
\* after verification: 250 + 100 + 10 + 50 + 200 + 100 + 150 points
C28_Witness ==
    /\ U1 \in DOMAIN user_achievements
    /\ hist_calls[U1].accepted = 50
    /\ user_achievements[U1].votes_cast = 50
    /\ user_achievements[U1].offers_shared = 2
    /\ Badges(U1) = {"first_vote", "voter_10", "voter_50", "offer_shared",
                     "verified_offer", "top_contributor"}
    /\ user_achievements[U1].points = 860

\* C29: in every state each stored like timestamp belongs to a post that
\* is still in the list, so that a like on a post deleted since then no
\* longer counts toward the daily limit of the user who gave it.
C29_TimestampsOfExistingPosts ==
    \A user \in DOMAIN user_likes :
        \A post_id \in DOMAIN user_likes[user] : FindPost(post_id) /= 0

\* the non-empty conversations that hold a message user sent or received
TakesPart(user) ==
    {c \in DOMAIN private_messages :
        \E k \in 1..Len(private_messages[c]) :
            user \in {private_messages[c][k].sender_id, private_messages[c][k].receiver_id}}
\* C30: after any accepted messages, to registered users, to the sender's
\* own id or to an id nobody holds, the list of conversations asked for by
\* a logged-in user is returned without error and holds exactly the
\* non-empty conversations with a message the user sent or received, each
\* with an other_user_id that is not the user.
C30_ConversationsListed ==
    (hist_req.op = "conversations" /\ hist_req.user /= NoUser) =>
        /\ resp.success
        /\ {resp.conversations[k].id : k \in 1..Len(resp.conversations)}
              = TakesPart(hist_req.user)
        /\ Len(resp.conversations) = Cardinality(TakesPart(hist_req.user))
        /\ \A k \in 1..Len(resp.conversations) :
              resp.conversations[k].other_user_id /= hist_req.user

====
